---------------------------- MODULE Spec2Model ----------------------------
(***************************************************************************)
(* Ledger-mutation protocol of finance-api: TransactionsService.create /   *)
(* update / remove and AccountsService.updateBalance, one step per await   *)
(* point that touches mutable storage.                                     *)
(*                                                                         *)
(* Amounts and balances are integers (minor currency units).  Every        *)
(* account id a request names exists and belongs to the requesting user,   *)
(* so the accountsService.findOne look-ups of create and update succeed;   *)
(* they read no mutable state and are folded into the step that follows.   *)
(***************************************************************************)
EXTENDS Integers, Sequences, FiniteSets, TLC

-----------------------------------------------------------------------------
(* Bounds *)

\* service calls started in one run
MaxOps == 3

\* transactions handed to one monthly aggregation
MaxRows == 3

\* monthly aggregates handed to one forecast
MaxAggregates == 4

\* the months argument of getCategoryTrend
MaxMonths == 3

-----------------------------------------------------------------------------
(* Values *)

Accounts == {1, 2}
\* ids the generated primary key hands out in one run
TxIds == {1}
Procs == {1, 2}

EXPENSE == "expense"
INCOME == "income"
TRANSFER == "transfer"
Types == {EXPENSE, INCOME, TRANSFER}

\* amounts a caller may send
Amounts == {-2, 1}

\* destinationAccountId is a nullable column; 0 stands for null / undefined
NoDest == 0

Abs(x) == IF x < 0 THEN -x ELSE x

\* a row of the transactions table, restricted to the columns the ledger reads
TxRecord(t, a, p, acc, d) ==
    [type |-> t, amount |-> a, isPaid |-> p, accountId |-> acc,
     destinationAccountId |-> d]

\* an absent row / an unset local
NoTx == [type |-> "none", amount |-> 0, isPaid |-> FALSE, accountId |-> 0,
         destinationAccountId |-> 0]

\* CreateTransactionDto: amount, type, accountId required; isPaid and
\* destinationAccountId optional (an absent isPaid is the column default false)
CreateDtos ==
    { TxRecord(t, a, p, acc, d) :
        t \in Types, a \in Amounts, p \in BOOLEAN, acc \in Accounts,
        d \in Accounts \cup {NoDest} }

\* UpdateTransactionDto: every field optional.  has is the set of fields the
\* request carries; a field that is not carried holds a fixed filler value.
Fields == {"type", "amount", "isPaid", "accountId", "destinationAccountId"}

UpdateDto(has, t, a, p, acc, d) ==
    [has |-> has,
     type |-> IF "type" \in has THEN t ELSE "none",
     amount |-> IF "amount" \in has THEN a ELSE 0,
     isPaid |-> IF "isPaid" \in has THEN p ELSE FALSE,
     accountId |-> IF "accountId" \in has THEN acc ELSE 0,
     destinationAccountId |-> IF "destinationAccountId" \in has THEN d ELSE 0]

UpdateDtos ==
    { UpdateDto(has, t, a, p, acc, d) :
        has \in SUBSET Fields, t \in Types, a \in Amounts \cup {0},
        p \in BOOLEAN, acc \in Accounts, d \in Accounts }

-----------------------------------------------------------------------------
(* State *)

VARIABLES
    accounts,   \* accounts table: the ids of the rows stored
    balance,    \* accounts table: balance column per account id
    txs,        \* transactions table: row per id, NoTx when absent
    nextId,     \* next value of the generated primary key
    nOps,       \* service calls started so far
    pc,         \* per request: position in its handler
    req,        \* per request: the call (kind, id)
    cur,        \* per request: local `transaction` / `savedTransaction`
    old,        \* per request: local `oldTransaction` (update)
    legs,       \* per request: updateBalance calls in flight
    calls,      \* per request: updateBalance calls issued so far, in order
    outcome,    \* per request: how the call ended
    start,      \* history: the tables when a call last started with no
                \* other call in flight
    preApply    \* history: the balances when updateAccountBalance was last
                \* entered

\* the smart-analytics services (AutoCategorizationService and its callers)
VARIABLES
    classifier,     \* natural.BayesClassifier: docs added, docs trained on
    isModelTrained, \* AutoCategorizationService.isModelTrained
    keywordMap,     \* AutoCategorizationService.keywordMap
    store,          \* the rows the analytics look-ups return
    apc,            \* per analytics call: position in its handler
    areq,           \* per analytics call: the call and its arguments
    ares,           \* per analytics call: what it returned
    seen            \* history: what the calls observed of the classifier

lvars == <<accounts, balance, txs, nextId, nOps, pc, req, cur, old, legs, calls,
           outcome, start, preApply>>

avars == <<classifier, isModelTrained, keywordMap, store, apc, areq, ares,
           seen>>

vars == <<lvars, avars>>

NoReq == [kind |-> "none", id |-> 0]
NoBalance == [a \in Accounts |-> 0]
NoStart == [balance |-> NoBalance, txs |-> [i \in TxIds |-> NoTx]]

-----------------------------------------------------------------------------
(* Auto-categorization: values                                             *)
(*                                                                         *)
(* A text is a sequence of characters.  Confidences are in hundredths.     *)
(* natural's BayesClassifier is a library: the model keeps the documents   *)
(* added and how many of them train() has folded in, and the posterior it  *)
(* answers with is any label it was trained on with any probability.       *)

\* a NULL / undefined description (the column is nullable, the field optional)
NullText == <<"null">>

\* descriptions a caller may send or a stored row may hold
Descs ==
    { << >>, <<" ">>, <<"a">>, <<"A", "!">>, <<"b">>, <<"a", "a", "a", "a">> }

\* the user's categories, in the order findAll returns them (name ASC);
\* names are lower-case already
UserCategories ==
    << [id |-> 1, name |-> "x", type |-> EXPENSE],
       [id |-> 2, name |-> "y", type |-> EXPENSE],
       [id |-> 3, name |-> "z", type |-> INCOME] >>

\* category ids a caller may send: 9 is no category of the user
CategoryIds == {1, 2, 9}

\* categoryId is a nullable column; 0 stands for null / undefined
NoCategory == 0

\* a row of the transactions table as the analytics read it
Row(i, d, a, c) == [id |-> i, description |-> d, amount |-> a, categoryId |-> c]

StoredDescs == { NullText, <<"a">>, <<"a", "a", "a", "a">> }

\* the tables the analytics find: up to two rows, most recent first
Stores ==
    { << >> }
    \cup { << Row(1, d, -2, c) >> : d \in StoredDescs, c \in {NoCategory, 2} }
    \cup { << Row(1, d, -2, c), Row(2, e, -2, NoCategory) >> :
             d \in StoredDescs, e \in StoredDescs, c \in {NoCategory, 2} }

\* top probabilities the classifier may answer with
MLValues == {30, 60}

\* keywordMap as constructed: category name to keyword list
InitialKeywordMap == [n \in {"y"} |-> << <<"b">> >>]

NoModel == [docs |-> << >>, trained |-> 0]
NoCall == [kind |-> "none"]
NoResult == [kind |-> "none"]
NoSeen == [asked |-> FALSE]
NoBefore == [classifier |-> NoModel, keywordMap |-> InitialKeywordMap]
NoHistory ==
    [call |-> [p \in Procs |-> NoSeen], before |-> [p \in Procs |-> NoBefore],
     learned |-> 0]

\* no analytics call in flight, nothing stored, nothing learnt
AnalyticsInit ==
    /\ classifier = NoModel
    /\ isModelTrained = FALSE
    /\ keywordMap = InitialKeywordMap
    /\ store = << >>
    /\ apc = [p \in Procs |-> "idle"]
    /\ areq = [p \in Procs |-> NoCall]
    /\ ares = [p \in Procs |-> NoResult]
    /\ seen = NoHistory


-----------------------------------------------------------------------------
(* updateAccountBalance / reverseAccountBalance: the updateBalance calls   *)
(* each issues, in the order issued (Promise.all starts both legs)         *)

IsTransferWithDest(t) == t.type = TRANSFER /\ t.destinationAccountId # NoDest

ApplyCalls(t) ==
    IF IsTransferWithDest(t)
    THEN << <<t.accountId, -Abs(t.amount)>>,
            <<t.destinationAccountId, Abs(t.amount)>> >>
    ELSE << <<t.accountId, t.amount>> >>

ReverseCalls(t) ==
    IF IsTransferWithDest(t)
    THEN << <<t.accountId, Abs(t.amount)>>,
            <<t.destinationAccountId, -Abs(t.amount)>> >>
    ELSE << <<t.accountId, -t.amount>> >>

\* an updateBalance call in flight: find (findOne pending), save (balance
\* computed from the row read, save pending), done, failed
StartLegs(cs) ==
    [i \in 1..Len(cs) |->
        [acc |-> cs[i][1], delta |-> cs[i][2], st |-> "find", val |-> 0]]

AllDone(ls) == \A i \in 1..Len(ls) : ls[i].st = "done"
Settled(ls) == \A i \in 1..Len(ls) : ls[i].st \in {"done", "failed"}

-----------------------------------------------------------------------------
(* TransactionsService.create *)

\* the BadRequest check of create
CreateRejects(dto) ==
    /\ dto.type = TRANSFER
    /\ dto.destinationAccountId # NoDest
    /\ dto.accountId = dto.destinationAccountId

\* accountsService.findOne of create: the source account, and the
\* destination of a transfer
CreateNotFound(dto, stored) ==
    \/ dto.accountId \notin stored
    \/ /\ dto.type = TRANSFER
       /\ dto.destinationAccountId # NoDest
       /\ dto.destinationAccountId \notin stored

\* the foreign keys of the transactions table: accountId and
\* destinationAccountId reference stored accounts
ForeignKeysReject(t, stored) ==
    \/ t.accountId \notin stored
    \/ t.destinationAccountId \notin stored \cup {NoDest}

\* the entity create builds from the dto
CreateEntity(dto) ==
    [dto EXCEPT !.amount = IF dto.type = EXPENSE THEN -Abs(dto.amount)
                           ELSE dto.amount]

\* CreateLegs without the isPaid test
CreateLegsAlways(t) == StartLegs(ApplyCalls(t))

\* the balance step of create
CreateLegs(t) == IF t.isPaid THEN StartLegs(ApplyCalls(t)) ELSE << >>

-----------------------------------------------------------------------------
(* TransactionsService.update *)

\* a dto field as JavaScript reads it: truthy when carried and not 0
Truthy(dto, f) == f \in dto.has /\ dto[f] # 0

\* the BadRequest check of update
UpdateRejects(t, dto) ==
    /\ t.type = TRANSFER
    /\ Truthy(dto, "destinationAccountId")
    /\ dto.destinationAccountId # t.destinationAccountId
    /\ "accountId" \in dto.has
    /\ dto.accountId = dto.destinationAccountId

\* updateTransactionDto.amount || transaction.amount
AmountOr(t, dto) == IF Truthy(dto, "amount") THEN dto.amount ELSE t.amount

\* the re-signing of the dto's amount when the type changes
Resign(t, dto) ==
    IF "type" \in dto.has /\ dto.type # t.type
    THEN IF dto.type = EXPENSE
         THEN [dto EXCEPT !.has = @ \cup {"amount"},
                          !.amount = -Abs(AmountOr(t, dto))]
         ELSE IF t.type = EXPENSE
              THEN [dto EXCEPT !.has = @ \cup {"amount"},
                               !.amount = Abs(AmountOr(t, dto))]
              ELSE dto
    ELSE dto

\* Object.assign(transaction, updateTransactionDto)
Assign(t, dto) ==
    [f \in DOMAIN t |-> IF f \in dto.has THEN dto[f] ELSE t[f]]

\* the transaction update saves
Updated(t, dto) == Assign(t, Resign(t, dto))

\* UpdateReverseLegs reading the fields Object.assign has already overwritten
UpdateReverseLegsOfNew(before, after) ==
    IF before.isPaid THEN StartLegs(ReverseCalls(after)) ELSE << >>

\* which snapshot update reverses, and whether it does
UpdateReverseLegs(before, after) ==
    IF before.isPaid THEN StartLegs(ReverseCalls(before)) ELSE << >>

\* the balance step of update after the save
UpdateApplyLegs(t) == IF t.isPaid THEN StartLegs(ApplyCalls(t)) ELSE << >>

-----------------------------------------------------------------------------
(* TransactionsService.remove *)

RemoveLegs(t) == IF t.isPaid THEN StartLegs(ReverseCalls(t)) ELSE << >>

-----------------------------------------------------------------------------
(* Steps *)

CallsOf(ls) == [i \in 1..Len(ls) |-> <<ls[i].acc, ls[i].delta>>]

Snapshot == [balance |-> balance, txs |-> txs]

Quiet == \A p \in Procs : pc[p] = "idle"

\* every call starts here: it is counted, and the tables are recorded when
\* no other call is in flight
Begin(p, r) ==
    /\ UNCHANGED avars
    /\ pc[p] = "idle"
    /\ nOps < MaxOps
    /\ nOps' = nOps + 1
    /\ req' = [req EXCEPT ![p] = r]
    /\ start' = IF Quiet THEN Snapshot ELSE start

\* a call that ends before its first write: NotFound or BadRequest
Refuse(p, why) ==
    /\ pc' = [pc EXCEPT ![p] = "done"]
    /\ outcome' = [outcome EXCEPT ![p] = why]
    /\ UNCHANGED <<balance, txs, nextId, cur, old, legs, calls, preApply>>

\* create: validate, build the entity, save it, start the balance step
Create(p, dto) ==
    /\ nextId \in TxIds
    /\ Begin(p, [kind |-> "create", id |-> nextId])
    /\ UNCHANGED accounts
    /\ IF CreateNotFound(dto, accounts)
       THEN Refuse(p, "NotFound")
       ELSE IF CreateRejects(dto)
       THEN Refuse(p, "BadRequest")
       ELSE IF ForeignKeysReject(CreateEntity(dto), accounts)
       THEN Refuse(p, "QueryFailed")
       ELSE LET t == CreateEntity(dto)
                ls == CreateLegs(t)
            IN /\ txs' = [txs EXCEPT ![nextId] = t]
               /\ nextId' = nextId + 1
               /\ cur' = [cur EXCEPT ![p] = t]
               /\ legs' = [legs EXCEPT ![p] = ls]
               /\ calls' = [calls EXCEPT ![p] = CallsOf(ls)]
               /\ preApply' = IF ls # << >> THEN balance ELSE preApply
               /\ pc' = [pc EXCEPT ![p] = "c_apply"]
               /\ UNCHANGED <<balance, old, outcome>>

\* create: the balance step is over, return savedTransaction
CreateReturn(p) ==
    /\ UNCHANGED <<avars, accounts>>
    /\ pc[p] = "c_apply"
    /\ AllDone(legs[p])
    /\ pc' = [pc EXCEPT ![p] = "done"]
    /\ outcome' = [outcome EXCEPT ![p] = "ok"]
    /\ UNCHANGED <<balance, txs, nextId, nOps, req, cur, old, legs, calls,
                   start, preApply>>

\* update: findOne, snapshot, validate, re-sign, Object.assign, start the
\* reversal of the snapshot
UpdateFind(p, id, dto) ==
    /\ Begin(p, [kind |-> "update", id |-> id])
    /\ UNCHANGED accounts
    /\ LET t == txs[id]
       IN IF t = NoTx
          THEN Refuse(p, "NotFound")
          ELSE IF UpdateRejects(t, dto)
          THEN Refuse(p, "BadRequest")
          ELSE LET after == Updated(t, dto)
                   ls == UpdateReverseLegs(t, after)
               IN /\ old' = [old EXCEPT ![p] = t]
                  /\ cur' = [cur EXCEPT ![p] = after]
                  /\ legs' = [legs EXCEPT ![p] = ls]
                  /\ calls' = [calls EXCEPT ![p] = CallsOf(ls)]
                  /\ pc' = [pc EXCEPT ![p] = "u_reverse"]
                  /\ UNCHANGED <<balance, txs, nextId, outcome, preApply>>

\* update: the reversal is over, save the transaction, start the balance step
UpdateSave(p) ==
    /\ UNCHANGED <<avars, accounts>>
    /\ pc[p] = "u_reverse"
    /\ AllDone(legs[p])
    /\ LET ls == UpdateApplyLegs(cur[p])
       IN /\ txs' = [txs EXCEPT ![req[p].id] = cur[p]]
          /\ legs' = [legs EXCEPT ![p] = ls]
          /\ calls' = [calls EXCEPT ![p] = @ \o CallsOf(ls)]
          /\ preApply' = IF ls # << >> THEN balance ELSE preApply
          /\ pc' = [pc EXCEPT ![p] = "u_apply"]
    /\ UNCHANGED <<balance, nextId, nOps, req, cur, old, outcome, start>>

\* update: the balance step is over, return updatedTransaction
UpdateReturn(p) ==
    /\ UNCHANGED <<avars, accounts>>
    /\ pc[p] = "u_apply"
    /\ AllDone(legs[p])
    /\ pc' = [pc EXCEPT ![p] = "done"]
    /\ outcome' = [outcome EXCEPT ![p] = "ok"]
    /\ UNCHANGED <<balance, txs, nextId, nOps, req, cur, old, legs, calls,
                   start, preApply>>

\* remove: findOne, start the reversal
RemoveFind(p, id) ==
    /\ Begin(p, [kind |-> "remove", id |-> id])
    /\ UNCHANGED accounts
    /\ LET t == txs[id]
       IN IF t = NoTx
          THEN Refuse(p, "NotFound")
          ELSE LET ls == RemoveLegs(t)
               IN /\ cur' = [cur EXCEPT ![p] = t]
                  /\ legs' = [legs EXCEPT ![p] = ls]
                  /\ calls' = [calls EXCEPT ![p] = CallsOf(ls)]
                  /\ pc' = [pc EXCEPT ![p] = "r_reverse"]
                  /\ UNCHANGED <<balance, txs, nextId, old, outcome, preApply>>

\* remove: the reversal is over, delete the row
RemoveRow(p) ==
    /\ UNCHANGED <<avars, accounts>>
    /\ pc[p] = "r_reverse"
    /\ AllDone(legs[p])
    /\ txs' = [txs EXCEPT ![req[p].id] = NoTx]
    /\ pc' = [pc EXCEPT ![p] = "done"]
    /\ outcome' = [outcome EXCEPT ![p] = "ok"]
    /\ UNCHANGED <<balance, nextId, nOps, req, cur, old, legs, calls, start,
                   preApply>>

\* updateBalance: findOne returns the row, the new balance is computed
UBFind(p, i) ==
    /\ UNCHANGED <<avars, accounts>>
    /\ i \in 1..Len(legs[p])
    /\ legs[p][i].st = "find"
    /\ legs' = [legs EXCEPT ![p][i].st = "save",
                            ![p][i].val = balance[legs[p][i].acc]
                                          + legs[p][i].delta]
    /\ UNCHANGED <<balance, txs, nextId, nOps, pc, req, cur, old, calls,
                   outcome, start, preApply>>

\* updateBalance: save writes the computed balance
UBSave(p, i) ==
    /\ UNCHANGED <<avars, accounts>>
    /\ i \in 1..Len(legs[p])
    /\ legs[p][i].st = "save"
    /\ balance' = [balance EXCEPT ![legs[p][i].acc] = legs[p][i].val]
    /\ legs' = [legs EXCEPT ![p][i].st = "done"]
    /\ UNCHANGED <<txs, nextId, nOps, pc, req, cur, old, calls, outcome,
                   start, preApply>>

\* updateBalance: findOne or save throws.  The catch of updateAccountBalance
\* / reverseAccountBalance turns the first rejection into
\* InternalServerErrorException, which ends the call; the other leg of a
\* Promise.all is not cancelled
UBFail(p, i) ==
    /\ UNCHANGED <<avars, accounts>>
    /\ i \in 1..Len(legs[p])
    /\ legs[p][i].st \in {"find", "save"}
    /\ legs' = [legs EXCEPT ![p][i].st = "failed"]
    /\ pc' = [pc EXCEPT ![p] = "done"]
    /\ outcome' = [outcome EXCEPT ![p] =
                     IF pc[p] = "done" THEN @ ELSE "InternalServerError"]
    /\ UNCHANGED <<balance, txs, nextId, nOps, req, cur, old, calls, start,
                   preApply>>

\* the response is out and no updateBalance call is left in flight: the
\* request's locals are dropped
Finish(p) ==
    /\ UNCHANGED <<avars, accounts>>
    /\ pc[p] = "done"
    /\ Settled(legs[p])
    /\ pc' = [pc EXCEPT ![p] = "idle"]
    /\ req' = [req EXCEPT ![p] = NoReq]
    /\ cur' = [cur EXCEPT ![p] = NoTx]
    /\ old' = [old EXCEPT ![p] = NoTx]
    /\ legs' = [legs EXCEPT ![p] = << >>]
    /\ calls' = [calls EXCEPT ![p] = << >>]
    /\ outcome' = [outcome EXCEPT ![p] = "none"]
    /\ start' = IF \A q \in Procs \ {p} : pc[q] = "idle" THEN NoStart
                ELSE start
    /\ UNCHANGED <<balance, txs, nextId, nOps, preApply>>

-----------------------------------------------------------------------------
(* Spec: calls run one at a time, no storage failure *)

LedgerInit ==
    /\ accounts = Accounts
    /\ balance = NoBalance
    /\ txs = [i \in TxIds |-> NoTx]
    /\ nextId = 1
    /\ nOps = 0
    /\ pc = [p \in Procs |-> "idle"]
    /\ req = [p \in Procs |-> NoReq]
    /\ cur = [p \in Procs |-> NoTx]
    /\ old = [p \in Procs |-> NoTx]
    /\ legs = [p \in Procs |-> << >>]
    /\ calls = [p \in Procs |-> << >>]
    /\ outcome = [p \in Procs |-> "none"]
    /\ start = NoStart
    /\ preApply = NoBalance

Init == LedgerInit /\ AnalyticsInit

Next ==
    \/ \E dto \in CreateDtos : Create(1, dto)
    \/ CreateReturn(1)
    \/ \E id \in TxIds, dto \in UpdateDtos : UpdateFind(1, id, dto)
    \/ UpdateSave(1)
    \/ UpdateReturn(1)
    \/ \E id \in TxIds : RemoveFind(1, id)
    \/ RemoveRow(1)
    \/ \E i \in 1..2 : UBFind(1, i)
    \/ \E i \in 1..2 : UBSave(1, i)
    \/ Finish(1)

Spec == Init /\ [][Next]_vars

-----------------------------------------------------------------------------
(* SpecFail: calls run one at a time, an updateBalance call may throw *)

FailCreateDtos ==
    { TxRecord(t, 1, TRUE, 1, d) : t \in {INCOME, TRANSFER}, d \in {NoDest, 2} }

FailUpdateDtos ==
    { UpdateDto({"amount"}, "none", -2, FALSE, 0, 0),
      UpdateDto({"isPaid"}, "none", 0, FALSE, 0, 0) }

NextFail ==
    \/ \E dto \in FailCreateDtos : Create(1, dto)
    \/ CreateReturn(1)
    \/ \E id \in TxIds, dto \in FailUpdateDtos : UpdateFind(1, id, dto)
    \/ UpdateSave(1)
    \/ UpdateReturn(1)
    \/ \E id \in TxIds : RemoveFind(1, id)
    \/ RemoveRow(1)
    \/ \E i \in 1..2 : UBFind(1, i)
    \/ \E i \in 1..2 : UBSave(1, i)
    \/ \E i \in 1..2 : UBFail(1, i)
    \/ Finish(1)

SpecFail == Init /\ [][NextFail]_vars

-----------------------------------------------------------------------------
(* SpecConc: two requests on the one stored, paid transaction, interleaved *)
(* at their await points; no storage failure                               *)

RECURSIVE NetDelta(_, _)
\* the sum of the deltas a sequence of updateBalance calls sends to account a
NetDelta(cs, a) ==
    IF cs = << >> THEN 0
    ELSE (IF Head(cs)[1] = a THEN Head(cs)[2] ELSE 0) + NetDelta(Tail(cs), a)

ConcInitTxs ==
    { TxRecord(INCOME, 1, TRUE, 1, NoDest), TxRecord(TRANSFER, 2, TRUE, 1, 2) }

\* updates that carry an amount and nothing else
ConcUpdateDtos ==
    { UpdateDto({"amount"}, "none", a, FALSE, 0, 0) : a \in Amounts }

\* the transaction has been created and its effect posted; no call in flight
InitConc ==
    \E t \in ConcInitTxs :
        /\ accounts = Accounts
        /\ balance = [a \in Accounts |-> NetDelta(ApplyCalls(t), a)]
        /\ txs = [i \in TxIds |-> t]
        /\ nextId = 2
        /\ nOps = 0
        /\ pc = [p \in Procs |-> "idle"]
        /\ req = [p \in Procs |-> NoReq]
        /\ cur = [p \in Procs |-> NoTx]
        /\ old = [p \in Procs |-> NoTx]
        /\ legs = [p \in Procs |-> << >>]
        /\ calls = [p \in Procs |-> << >>]
        /\ outcome = [p \in Procs |-> "none"]
        /\ start = NoStart
        /\ preApply = NoBalance
        /\ AnalyticsInit

NextConc ==
    \E p \in Procs :
        \/ \E dto \in ConcUpdateDtos : UpdateFind(p, 1, dto)
        \/ UpdateSave(p)
        \/ UpdateReturn(p)
        \/ RemoveFind(p, 1)
        \/ RemoveRow(p)
        \/ \E i \in 1..2 : UBFind(p, i)
        \/ \E i \in 1..2 : UBSave(p, i)

SpecConc == InitConc /\ [][NextConc]_vars

-----------------------------------------------------------------------------
(* The ledger's reading of a stored transaction *)

\* the signed effect a stored transaction has on account a
EffectOn(t, a) ==
    IF t = NoTx \/ ~t.isPaid THEN 0
    ELSE IF IsTransferWithDest(t)
         THEN (IF a = t.accountId THEN -Abs(t.amount) ELSE 0)
              + (IF a = t.destinationAccountId THEN Abs(t.amount) ELSE 0)
         ELSE IF a = t.accountId THEN t.amount ELSE 0

RECURSIVE SumEffects(_, _, _)
SumEffects(table, ids, a) ==
    IF ids = {} THEN 0
    ELSE LET i == CHOOSE j \in ids : TRUE
         IN EffectOn(table[i], a) + SumEffects(table, ids \ {i}, a)

SelfTransfer(t) == IsTransferWithDest(t) /\ t.accountId = t.destinationAccountId

\* C1: between two calls every balance is the initial balance (0) plus the
\* signed effects of the stored paid transactions
C1_BalanceInvariant ==
    Quiet => \A a \in Accounts : balance[a] = SumEffects(txs, TxIds, a)

\* a call that has returned (or thrown) with nothing of it left in flight
Returned(p) == pc[p] = "done" /\ Settled(legs[p])

\* C6: once the reversal of a paid snapshot is over (in remove, or in the
\* first half of update), every balance is what it was before the same
\* snapshot was applied
C6_ReverseInvertsApply ==
    /\ (Returned(1) /\ req[1].kind = "remove" /\ outcome[1] = "ok"
          /\ cur[1].isPaid)
       => balance = preApply
    /\ (pc[1] = "u_reverse" /\ AllDone(legs[1]) /\ old[1].isPaid)
       => balance = preApply

\* the updateBalance calls that post / take back the effect of t
Posting(t) ==
    IF ~t.isPaid THEN << >>
    ELSE IF IsTransferWithDest(t)
         THEN << <<t.accountId, -Abs(t.amount)>>,
                 <<t.destinationAccountId, Abs(t.amount)>> >>
         ELSE << <<t.accountId, t.amount>> >>

TakingBack(t) == [i \in 1..Len(Posting(t)) |->
                    <<Posting(t)[i][1], -Posting(t)[i][2]>>]

UpdateOk(p) == Returned(p) /\ req[p].kind = "update" /\ outcome[p] = "ok"

\* C7: a completed update has taken back the pre-update row iff that row was
\* paid and posted the saved row iff it is paid, in that order and nothing
\* else; the balances moved by exactly that much when neither row is a
\* transfer from an account to itself
C7_UpdateReversesOldAppliesNew ==
    UpdateOk(1) =>
        /\ old[1] = start.txs[req[1].id]
        /\ cur[1] = txs[req[1].id]
        /\ calls[1] = TakingBack(old[1]) \o Posting(cur[1])
        /\ (~SelfTransfer(old[1]) /\ ~SelfTransfer(cur[1]))
           => \A a \in Accounts :
                balance[a] = start.balance[a] - EffectOn(old[1], a)
                             + EffectOn(cur[1], a)

\* C7 witness: a paid row moved to another account with another amount
C7_Witness ==
    /\ UpdateOk(1)
    /\ old[1].isPaid /\ cur[1].isPaid
    /\ old[1].accountId # cur[1].accountId
    /\ old[1].amount # cur[1].amount
    /\ balance # start.balance

\* C8: a stored expense is never positive, a stored income never negative
C8_SignInvariant ==
    \A i \in TxIds :
        /\ txs[i].type = EXPENSE => txs[i].amount <= 0
        /\ txs[i].type = INCOME => txs[i].amount >= 0

\* C9: no create or update goes through with a transfer whose source and
\* destination are the same account, a BadRequest leaves the tables alone,
\* and no such transfer is ever stored
C9_TransferRejection ==
    /\ \A p \in Procs :
         (req[p].kind \in {"create", "update"} /\ outcome[p] # "BadRequest")
         => ~SelfTransfer(cur[p])
    /\ \A p \in Procs :
         outcome[p] = "BadRequest"
         => (txs = start.txs /\ balance = start.balance)
    /\ \A i \in TxIds : ~SelfTransfer(txs[i])

\* C10: a create of an unpaid transaction and a remove of an unpaid
\* transaction issue no updateBalance call and leave every balance alone
C10_UnpaidTouchesNoBalance ==
    (req[1].kind \in {"create", "remove"} /\ cur[1] # NoTx /\ ~cur[1].isPaid)
    => (calls[1] = << >> /\ balance = start.balance)

\* C10 witness: an unpaid transaction was created and is now removed
C10_Witness ==
    /\ Returned(1) /\ req[1].kind = "remove" /\ outcome[1] = "ok"
    /\ ~cur[1].isPaid
    /\ txs[req[1].id] = NoTx
    /\ nOps = 2

BothReturned == \A p \in Procs : Returned(p)

\* the balances a serial execution of the two requests of SpecConc can leave:
\* a remove, first or second, leaves the transaction's effect taken back
\* once; of two amount-only updates the later one's row is posted
SerialBalances ==
    LET t0 == start.txs[1]
    IN IF \E p \in Procs : req[p].kind = "remove"
       THEN { [a \in Accounts |-> start.balance[a] - EffectOn(t0, a)] }
       ELSE { [a \in Accounts |-> start.balance[a] - EffectOn(t0, a)
                                  + EffectOn(cur[p], a)] : p \in Procs }

\* C2: two concurrent requests on the same paid transaction leave the
\* balances some serial execution of the two would leave
C2_ExactlyOnce == BothReturned => balance \in SerialBalances

\* C3: when two concurrent requests are over, every balance has moved by the
\* sum of the deltas of all the updateBalance calls the two made
C3_NoLostUpdate ==
    BothReturned =>
        \A a \in Accounts :
            balance[a] = start.balance[a] + NetDelta(calls[1], a)
                         + NetDelta(calls[2], a)

\* C4: when one of the two updateBalance calls of a transfer's first balance
\* step has failed and the other is settled, no balance has changed
C4_TransferLegsAtomic ==
    \A p \in Procs :
        (/\ Len(legs[p]) = 2
         /\ Len(calls[p]) = 2
         /\ Settled(legs[p])
         /\ \E i \in 1..2 : legs[p][i].st = "failed")
        => balance = start.balance

\* C5: a call that ended in InternalServerError has left the stored
\* transactions and the balances as they were when it started
C5_FailureNotCommitted ==
    \A p \in Procs :
        (outcome[p] = "InternalServerError" /\ Settled(legs[p]))
        => (txs = start.txs /\ balance = start.balance)


-----------------------------------------------------------------------------
(* Auto-categorization: text *)

Lower(c) == IF c = "A" THEN "a" ELSE c

\* toLowerCase, strip diacritics, strip what is neither word nor space
normalizeText(text) ==
    SelectSeq([i \in 1..Len(text) |-> Lower(text[i])],
              LAMBDA c : c \in {"a", "b", " "})

\* !description || description.trim() === ''
IsBlank(description) ==
    \/ description = NullText
    \/ \A i \in 1..Len(description) : description[i] = " "

\* String.prototype.includes
Includes(s, t) ==
    \E i \in 1..(Len(s) + 1) :
        i + Len(t) - 1 <= Len(s) /\ SubSeq(s, i, i + Len(t) - 1) = t

RECURSIVE SplitFrom(_, _, _)
\* text.split(' '): the pieces between spaces, empty ones included
SplitFrom(text, i, word) ==
    IF i > Len(text) THEN << word >>
    ELSE IF text[i] = " " THEN << word >> \o SplitFrom(text, i + 1, << >>)
    ELSE SplitFrom(text, i + 1, Append(word, text[i]))

Split(text) == SplitFrom(text, 1, << >>)

\* WordTokenizer.tokenize: the non-empty words
Tokenize(text) == SelectSeq(Split(text), LAMBDA w : w # << >>)

getAmountRange(amount) ==
    IF amount < 50 THEN "valor_muito_baixo"
    ELSE IF amount < 100 THEN "valor_baixo"
    ELSE IF amount < 500 THEN "valor_medio"
    ELSE IF amount < 1000 THEN "valor_alto"
    ELSE "valor_muito_alto"

\* a null description makes normalizeText throw a TypeError
FeaturesThrow(description) == description = NullText

extractFeatures(description, amount) ==
    [tokens |-> Tokenize(normalizeText(description)),
     amountType |-> IF amount < 0 THEN "despesa" ELSE "receita",
     amountRange |-> getAmountRange(Abs(amount))]

-----------------------------------------------------------------------------
(* Auto-categorization: the classifier, the strategies *)

\* classifier.addDocument(features, label)
addDocument(c, features, label) ==
    [c EXCEPT !.docs = Append(@, [features |-> features, label |-> label])]

\* classifier.train(): folds every document added so far into the model
train(c) == [c EXCEPT !.trained = Len(c.docs)]

AddedOnly(c, features, label) == addDocument(c, features, label)
\* learnFromFeedback: addDocument and train run back to back, no await between
Retrained(c, features, label) == train(addDocument(c, features, label))

\* classifier.getClassifications(features)[0]: what the top entry may be
Classifications(c, features) ==
    { [label |-> c.docs[i].label, value |-> v] :
        i \in 1..c.trained, v \in MLValues }

Suggestion(categoryId, confidence) ==
    [kind |-> "suggestion", categoryId |-> categoryId,
     confidence |-> confidence]

NullResult == [kind |-> "null"]

\* findCategorized: the rows with a categoryId
Categorized(rows) == SelectSeq(rows, LAMBDA r : r.categoryId # NoCategory)

RECURSIVE AddAll(_, _)
\* the loop of trainModelWithHistoricalData; extractFeatures may throw
AddAll(c, rows) ==
    IF rows = << >> THEN [c |-> c, threw |-> FALSE]
    ELSE IF FeaturesThrow(Head(rows).description)
    THEN [c |-> c, threw |-> TRUE]
    ELSE AddAll(addDocument(c, extractFeatures(Head(rows).description,
                                               Head(rows).amount),
                            Head(rows).categoryId),
                Tail(rows))

\* onModuleInit: the classifier and isModelTrained after start-up training
trainModelWithHistoricalData(rows, lookupFails) ==
    IF lookupFails THEN [classifier |-> NoModel, isModelTrained |-> FALSE]
    ELSE LET r == AddAll(NoModel, Categorized(rows))
         IN IF ~r.threw /\ Len(r.c.docs) > 0
            THEN [classifier |-> train(r.c), isModelTrained |-> TRUE]
            ELSE [classifier |-> r.c, isModelTrained |-> FALSE]

RECURSIVE findSimilarTransaction(_, _)
\* the scan over findRecent's rows; normalizeText of a null description throws
findSimilarTransaction(description, rows) ==
    IF rows = << >> THEN [kind |-> "none"]
    ELSE IF Head(rows).description = NullText THEN [kind |-> "throws"]
    ELSE LET d == normalizeText(Head(rows).description)
         IN IF Includes(d, description) \/ Includes(description, d)
            THEN [kind |-> "row", categoryId |-> Head(rows).categoryId]
            ELSE findSimilarTransaction(description, Tail(rows))

\* amount < 0 ? CategoryType.EXPENSE : CategoryType.INCOME
PolarityType(amount) == IF amount < 0 THEN EXPENSE ELSE INCOME

\* categoriesService.findAll(userId, type)
findAll(type) == SelectSeq(UserCategories, LAMBDA c : c.type = type)

HasKeyword(km, name, description) ==
    /\ name \in DOMAIN km
    /\ \E i \in 1..Len(km[name]) : Includes(description, km[name][i])

RECURSIVE matchCategoryByKeywords(_, _, _)
matchCategoryByKeywords(km, description, cats) ==
    IF cats = << >> THEN NullResult
    ELSE IF HasKeyword(km, Head(cats).name, description)
    THEN Suggestion(Head(cats).id, 70)
    ELSE matchCategoryByKeywords(km, description, Tail(cats))

fallbackCategorization(amount) ==
    LET cats == findAll(PolarityType(amount))
    IN IF Len(cats) > 0 THEN Suggestion(cats[1].id, 30) ELSE NullResult

\* transactionsService.findOne / categoriesService.findOne: the row, if any
RowsById(rows, id) == SelectSeq(rows, LAMBDA r : r.id = id)

RECURSIVE PushNew(_, _)
\* push each word the list does not include yet
PushNew(list, words) ==
    IF words = << >> THEN list
    ELSE PushNew(IF \E i \in 1..Len(list) : list[i] = Head(words)
                 THEN list ELSE Append(list, Head(words)),
                 Tail(words))

\* learnFromFeedback: the keyword list of the category gains the words of
\* the description that are longer than 3 characters
LearnKeywordsOf(km, name, description) ==
    LET base == IF name \in DOMAIN km THEN km[name] ELSE << >>
        words == SelectSeq(Split(normalizeText(description)),
                           LAMBDA w : Len(w) > 3)
    IN [n \in DOMAIN km \cup {name} |->
          IF n = name THEN PushNew(base, words) ELSE km[n]]

-----------------------------------------------------------------------------
(* Auto-categorization: steps, one per await point *)

\* the ledger variables an analytics call leaves alone
lrest == <<accounts, balance, txs, nextId, pc, req, cur, old, legs, calls, outcome,
           start, preApply>>

\* dto of POST /transactions, restricted to what categorization reads
ControllerDtos ==
    { [description |-> d, amount |-> a, categoryId |-> c] :
        d \in {<<"a">>, <<"b">>}, a \in Amounts, c \in {NoCategory, 1} }

ABegin(p, r) ==
    /\ apc[p] = "idle"
    /\ nOps < MaxOps
    /\ nOps' = nOps + 1
    /\ areq' = [areq EXCEPT ![p] = r]
    /\ UNCHANGED <<lrest, store>>

AReturn(p, result) ==
    /\ apc' = [apc EXCEPT ![p] = "done"]
    /\ ares' = [ares EXCEPT ![p] = result]

AGoto(p, where) ==
    /\ apc' = [apc EXCEPT ![p] = where]
    /\ UNCHANGED ares

\* suggestCategory up to its first await: the blank test, the ML query
SuggestStart(p, description, amount) ==
    /\ ABegin(p, [kind |-> "suggest", description |-> description,
                  amount |-> amount, learned |-> seen.learned])
    /\ UNCHANGED <<classifier, isModelTrained, keywordMap>>
    /\ IF IsBlank(description)
       THEN /\ AGoto(p, "s_fallback")
            /\ seen' = [seen EXCEPT !.call[p] = NoSeen]
       ELSE IF isModelTrained
       THEN \E top \in Classifications(classifier,
                                       extractFeatures(description, amount)) :
               /\ seen' = [seen EXCEPT !.call[p] =
                             [asked |-> TRUE, top |-> top,
                              model |-> classifier]]
               /\ IF top.value > 30
                  THEN AReturn(p, Suggestion(top.label, top.value))
                  ELSE AGoto(p, "s_similar")
       ELSE /\ AGoto(p, "s_similar")
            /\ seen' = [seen EXCEPT !.call[p] = NoSeen]

\* suggestCategory: findRecent returned, the scan for a similar description
SuggestSimilar(p) ==
    /\ apc[p] = "s_similar"
    /\ LET r == findSimilarTransaction(normalizeText(areq[p].description),
                                       store)
       IN IF r.kind = "throws" THEN AGoto(p, "s_fallback")
          ELSE IF r.kind = "row"
          THEN AReturn(p, Suggestion(r.categoryId, 85))
          ELSE AGoto(p, "s_keyword")
    /\ UNCHANGED <<lvars, classifier, isModelTrained, keywordMap, store,
                   areq, seen>>

\* suggestCategory: findAll returned, the keyword map is tried
SuggestKeywords(p) ==
    /\ apc[p] = "s_keyword"
    /\ LET m == matchCategoryByKeywords(keywordMap,
                    normalizeText(areq[p].description),
                    findAll(PolarityType(areq[p].amount)))
       IN IF m # NullResult THEN AReturn(p, m) ELSE AGoto(p, "s_fallback")
    /\ UNCHANGED <<lvars, classifier, isModelTrained, keywordMap, store,
                   areq, seen>>

\* fallbackCategorization: findAll returned
SuggestFallback(p) ==
    /\ apc[p] = "s_fallback"
    /\ AReturn(p, fallbackCategorization(areq[p].amount))
    /\ UNCHANGED <<lvars, classifier, isModelTrained, keywordMap, store,
                   areq, seen>>

\* learnFromFeedback is entered and awaits transactionsService.findOne
LearnFind(p, transactionId, categoryId) ==
    /\ ABegin(p, [kind |-> "learn", transactionId |-> transactionId,
                  categoryId |-> categoryId])
    /\ AGoto(p, "l_find")
    /\ seen' = [seen EXCEPT !.before[p] =
                  [classifier |-> classifier, keywordMap |-> keywordMap]]
    /\ UNCHANGED <<classifier, isModelTrained, keywordMap>>

\* learnFromFeedback: findOne returned (or threw NotFound); the document is
\* added and the model retrained, then categoriesService.findOne is awaited
LearnTrain(p) ==
    /\ apc[p] = "l_find"
    /\ LET rows == RowsById(store, areq[p].transactionId)
       IN IF rows = << >> \/ FeaturesThrow(rows[1].description)
          THEN /\ AReturn(p, [kind |-> "void", learned |-> FALSE])
               /\ UNCHANGED classifier
          ELSE /\ classifier' =
                     Retrained(classifier,
                               extractFeatures(rows[1].description,
                                               rows[1].amount),
                               areq[p].categoryId)
               /\ AGoto(p, "l_category")
    /\ UNCHANGED <<lvars, isModelTrained, keywordMap, store, areq, seen>>

\* learnFromFeedback: categoriesService.findOne returned (or threw
\* NotFound, which the catch swallows); the keyword map is extended
LearnKeywords(p) ==
    /\ apc[p] = "l_category"
    /\ LET cats == SelectSeq(UserCategories,
                             LAMBDA c : c.id = areq[p].categoryId)
           rows == RowsById(store, areq[p].transactionId)
       IN IF cats = << >>
          THEN /\ AReturn(p, [kind |-> "void", learned |-> FALSE])
               /\ UNCHANGED <<keywordMap, seen>>
          ELSE /\ keywordMap' = LearnKeywordsOf(keywordMap, cats[1].name,
                                                rows[1].description)
               /\ AReturn(p, [kind |-> "void", learned |-> TRUE])
               /\ seen' = [seen EXCEPT !.learned = Len(classifier.docs)]
    /\ UNCHANGED <<lvars, classifier, isModelTrained, store, areq>>

\* a pending look-up (findRecent, findAll, findOne) throws
ALookupFails(p) ==
    /\ apc[p] \in {"s_similar", "s_keyword", "s_fallback", "l_find",
                   "l_category"}
    /\ IF apc[p] \in {"s_similar", "s_keyword"} THEN AGoto(p, "s_fallback")
       ELSE IF apc[p] = "s_fallback" THEN AReturn(p, [kind |-> "throws"])
       ELSE AReturn(p, [kind |-> "void", learned |-> FALSE])
    /\ UNCHANGED <<lvars, classifier, isModelTrained, keywordMap, store,
                   areq, seen>>

\* TransactionsController.create: the dto goes to transactionsService.create
\* as received, which stores its categoryId
ControllerCreate(p, dto) ==
    /\ ABegin(p, [kind |-> "create", dto |-> dto])
    /\ AReturn(p, [kind |-> "created", passed |-> dto,
                   suggestCalls |-> << >>])
    /\ UNCHANGED <<classifier, isModelTrained, keywordMap, seen>>

\* the response is out: the call's locals are dropped
AFinish(p) ==
    /\ apc[p] = "done"
    /\ apc' = [apc EXCEPT ![p] = "idle"]
    /\ areq' = [areq EXCEPT ![p] = NoCall]
    /\ ares' = [ares EXCEPT ![p] = NoResult]
    /\ seen' = [seen EXCEPT !.call[p] = NoSeen, !.before[p] = NoBefore]
    /\ UNCHANGED <<lvars, classifier, isModelTrained, keywordMap, store>>

-----------------------------------------------------------------------------
(* SpecCat: analytics calls one at a time, no look-up fails *)

\* the service after onModuleInit, over any stored rows
InitCat ==
    /\ LedgerInit
    /\ \E st \in Stores, lookupFails \in BOOLEAN :
          LET m == trainModelWithHistoricalData(st, lookupFails)
          IN /\ store = st
             /\ classifier = m.classifier
             /\ isModelTrained = m.isModelTrained
    /\ keywordMap = InitialKeywordMap
    /\ apc = [p \in Procs |-> "idle"]
    /\ areq = [p \in Procs |-> NoCall]
    /\ ares = [p \in Procs |-> NoResult]
    /\ seen = NoHistory

NextCat ==
    \/ \E d \in Descs, a \in Amounts : SuggestStart(1, d, a)
    \/ SuggestSimilar(1)
    \/ SuggestKeywords(1)
    \/ SuggestFallback(1)
    \/ \E t \in {1, 2, 3}, c \in CategoryIds : LearnFind(1, t, c)
    \/ LearnTrain(1)
    \/ LearnKeywords(1)
    \/ \E dto \in ControllerDtos : ControllerCreate(1, dto)
    \/ AFinish(1)

SpecCat == InitCat /\ [][NextCat]_vars

-----------------------------------------------------------------------------
(* SpecCatFail: analytics calls one at a time, a look-up may throw *)

NextCatFail ==
    \/ \E d \in Descs, a \in Amounts : SuggestStart(1, d, a)
    \/ SuggestSimilar(1)
    \/ SuggestKeywords(1)
    \/ SuggestFallback(1)
    \/ \E t \in {1, 2, 3}, c \in CategoryIds : LearnFind(1, t, c)
    \/ LearnTrain(1)
    \/ LearnKeywords(1)
    \/ ALookupFails(1)
    \/ AFinish(1)

SpecCatFail == InitCat /\ [][NextCatFail]_vars

-----------------------------------------------------------------------------
(* SpecCatConc: two analytics calls interleaved at their await points, on *)
(* a model that start-up training has trained                             *)

ConcStores ==
    { << Row(1, <<"a">>, -2, 2) >>,
      << Row(1, <<"a", "a", "a", "a">>, -2, 2), Row(2, <<"a">>, -2, NoCategory) >> }

InitCatConc ==
    /\ LedgerInit
    /\ \E st \in ConcStores :
          LET m == trainModelWithHistoricalData(st, FALSE)
          IN /\ store = st
             /\ classifier = m.classifier
             /\ isModelTrained = m.isModelTrained
    /\ keywordMap = InitialKeywordMap
    /\ apc = [p \in Procs |-> "idle"]
    /\ areq = [p \in Procs |-> NoCall]
    /\ ares = [p \in Procs |-> NoResult]
    /\ seen = NoHistory

NextCatConc ==
    \E p \in Procs :
        \/ \E d \in {<<"a">>, <<"b">>}, a \in Amounts : SuggestStart(p, d, a)
        \/ SuggestSimilar(p)
        \/ SuggestKeywords(p)
        \/ SuggestFallback(p)
        \/ \E t \in {1, 2}, c \in {1, 9} : LearnFind(p, t, c)
        \/ LearnTrain(p)
        \/ LearnKeywords(p)
        \/ AFinish(p)

SpecCatConc == InitCatConc /\ [][NextCatConc]_vars

-----------------------------------------------------------------------------
(* Claims on auto-categorization *)

RECURSIVE SimilarRow(_, _)
\* the first row whose normalized description contains, or is contained in,
\* the query; a row without a description has none to compare
SimilarRow(description, rows) ==
    IF rows = << >> THEN [kind |-> "none"]
    ELSE IF /\ Head(rows).description # NullText
            /\ LET d == normalizeText(Head(rows).description)
               IN Includes(d, description) \/ Includes(description, d)
    THEN [kind |-> "row", categoryId |-> Head(rows).categoryId]
    ELSE SimilarRow(description, Tail(rows))

\* the categories of the amount's polarity that have a keyword in the text
KeywordHits(km, description, amount) ==
    SelectSeq(findAll(PolarityType(amount)),
              LAMBDA c : HasKeyword(km, c.name, description))

\* what the resolution order yields for a call, given the classifier's answer
FirstSuccess(call, ml) ==
    LET d == normalizeText(call.description)
        sim == SimilarRow(d, store)
        hits == KeywordHits(keywordMap, d, call.amount)
        own == findAll(PolarityType(call.amount))
    IN IF ml.asked /\ ml.top.value > 30
       THEN Suggestion(ml.top.label, ml.top.value)
       ELSE IF sim.kind = "row" THEN Suggestion(sim.categoryId, 85)
       ELSE IF hits # << >> THEN Suggestion(hits[1].id, 70)
       ELSE IF own # << >> THEN Suggestion(own[1].id, 30)
       ELSE NullResult

SuggestDone(p) == apc[p] = "done" /\ areq[p].kind = "suggest"

\* C11: for a non-blank description suggestCategory returns the result of
\* the first strategy that succeeds in the order ML (> 0.3), similar
\* transaction (0.85), keyword map (0.7), first category of the polarity
\* (0.3), null; the confidence is in [0,1]
C11_ResolutionOrder ==
    (SuggestDone(1) /\ ~IsBlank(areq[1].description)) =>
        /\ ares[1] = FirstSuccess(areq[1], seen.call[1])
        /\ ares[1].kind = "suggestion" =>
              (ares[1].confidence >= 0 /\ ares[1].confidence <= 100)

\* C12: a transaction created through the controller without a categoryId
\* makes one suggestCategory call with its description and amount (and the
\* suggested category is applied iff its confidence is at least 0.5); with
\* a categoryId no call is made and the dto is passed on as it is
C12_ControllerSuggests ==
    (apc[1] = "done" /\ areq[1].kind = "create") =>
        LET dto == areq[1].dto
        IN IF dto.categoryId = NoCategory
           THEN ares[1].suggestCalls = << <<dto.description, dto.amount>> >>
           ELSE ares[1].suggestCalls = << >> /\ ares[1].passed = dto

\* C13: once a learnFromFeedback call has succeeded, a later suggestCategory
\* with a non-blank description queries the classifier, and the model it
\* queries is trained on the fed-back document
C13_FeedbackTrainsModel ==
    (areq[1].kind = "suggest" /\ areq[1].learned > 0
     /\ ~IsBlank(areq[1].description)) =>
        /\ seen.call[1].asked
        /\ seen.call[1].model.trained >= areq[1].learned

\* C14: learnFromFeedback never throws, and a call whose transaction
\* look-up, category look-up or retrain failed leaves the classifier's
\* documents and the keyword map as they were before the call
C14_FailedFeedbackIsNoOp ==
    (apc[1] = "done" /\ areq[1].kind = "learn") =>
        /\ ares[1].kind = "void"
        /\ ~ares[1].learned =>
              /\ classifier.docs = seen.before[1].classifier.docs
              /\ keywordMap = seen.before[1].keywordMap

C16_AnalyticsSoftFails ==
    \A p \in Procs : ares[p].kind # "throws"

-----------------------------------------------------------------------------
(* Spending forecast: dates and month keys                                 *)
(*                                                                         *)
(* A date is [t, d]: t counts months (year * 12 + month, month from 0 as   *)
(* getMonth gives it), d is the day of the month.  A month key stands for  *)
(* the string "YYYY-MM": <<year, month from 1>>; with four-digit years     *)
(* localeCompare orders the strings as it orders the pairs.                *)

Date(t, d) == [t |-> t, d |-> d]

YearOf(t) == t \div 12

IsLeap(y) == y % 4 = 0 /\ (y % 100 # 0 \/ y % 400 = 0)

\* days in the month t
DaysIn(t) ==
    LET m == t % 12
    IN IF m = 1 THEN (IF IsLeap(YearOf(t)) THEN 29 ELSE 28)
       ELSE IF m \in {3, 5, 8, 10} THEN 30
       ELSE 31

\* date.setMonth(k): the day is kept; a day the month does not have rolls
\* over into the next month
setMonth(date, t) ==
    IF date.d <= DaysIn(t) THEN Date(t, date.d)
    ELSE Date(t + 1, date.d - DaysIn(t))

\* `${date.getFullYear()}-${String(date.getMonth() + 1).padStart(2, '0')}`
MonthKey(date) == <<YearOf(date.t), (date.t % 12) + 1>>

\* a.localeCompare(b) < 0 on month keys
KeyBefore(a, b) == a[1] < b[1] \/ (a[1] = b[1] /\ a[2] < b[2])

Aggregate(month, amount) == [month |-> month, amount |-> amount]

RECURSIVE InsertByMonth(_, _)
InsertByMonth(sorted, item) ==
    IF sorted = << >> THEN << item >>
    ELSE IF KeyBefore(item.month, Head(sorted).month)
    THEN << item >> \o sorted
    ELSE << Head(sorted) >> \o InsertByMonth(Tail(sorted), item)

RECURSIVE SortFrom(_, _)
SortFrom(data, sorted) ==
    IF data = << >> THEN sorted
    ELSE SortFrom(Tail(data), InsertByMonth(sorted, Head(data)))

Unsorted(data) == data
\* [...data].sort((a, b) => a.month.localeCompare(b.month))
SortByMonth(data) == SortFrom(data, << >>)

-----------------------------------------------------------------------------
(* Spending forecast: the computations *)

RECURSIVE AddToMonth(_, _, _)
\* monthlyMap[monthKey] += amount, a new key going last
AddToMonth(map, key, amount) ==
    IF map = << >> THEN << Aggregate(key, amount) >>
    ELSE IF Head(map).month = key
    THEN << Aggregate(key, Head(map).amount + amount) >> \o Tail(map)
    ELSE << Head(map) >> \o AddToMonth(Tail(map), key, amount)

RECURSIVE MonthlyMap(_, _)
MonthlyMap(transactions, map) ==
    IF transactions = << >> THEN map
    ELSE MonthlyMap(Tail(transactions),
                    AddToMonth(map, MonthKey(Head(transactions).date),
                               Head(transactions).amount))

\* aggregateByMonth: the signed amounts are summed per month key, the
\* entries are mapped to { month, Math.abs(amount) }
aggregateByMonth(transactions) ==
    LET map == MonthlyMap(transactions, << >>)
    IN [i \in 1..Len(map) |-> Aggregate(map[i].month, Abs(map[i].amount))]

RECURSIVE SumAmounts(_)
SumAmounts(data) ==
    IF data = << >> THEN 0 ELSE Head(data).amount + SumAmounts(Tail(data))

RECURSIVE WeightedSum(_, _)
\* the loop from index i - 1: amount * weight, weight = index + 1
WeightedSum(sorted, i) ==
    IF i > Len(sorted) THEN 0
    ELSE sorted[i].amount * i + WeightedSum(sorted, i + 1)

RECURSIVE WeightSum(_, _)
WeightSum(sorted, i) ==
    IF i > Len(sorted) THEN 0 ELSE i + WeightSum(sorted, i + 1)

\* calculateWeightedMovingAverage: the amount, as the fraction num / den.
\* The confidence of three months and more is a floating-point square
\* root and is not carried.
calculateWeightedMovingAverage(monthlyData) ==
    IF Len(monthlyData) < 3
    THEN [num |-> SumAmounts(monthlyData),
          den |-> IF Len(monthlyData) > 0 THEN Len(monthlyData) ELSE 1]
    ELSE LET sortedData == SortByMonth(monthlyData)
         IN [num |-> WeightedSum(sortedData, 1),
             den |-> WeightSum(sortedData, 1)]

\* determineTrend: percentChange as the fraction num / den
percentChange(prediction, currentAmount) ==
    IF currentAmount > 0
    THEN [num |-> (prediction - currentAmount) * 100, den |-> currentAmount]
    ELSE [num |-> 0, den |-> 1]

determineTrendInclusive(prediction, currentAmount) ==
    LET pc0 == percentChange(prediction, currentAmount)
    IN IF pc0.num >= 5 * pc0.den THEN "increasing"
       ELSE IF pc0.num <= -5 * pc0.den THEN "decreasing"
       ELSE "stable"
\* determineTrend: threshold 5, strict comparisons
determineTrend(prediction, currentAmount) ==
    LET pc0 == percentChange(prediction, currentAmount)
    IN IF pc0.num > 5 * pc0.den THEN "increasing"
       ELSE IF pc0.num < -5 * pc0.den THEN "decreasing"
       ELSE "stable"

\* current <= endDate; late tells that the clock ticked between the two
\* new Date() of getCategoryTrend, startDate being the later reading
NotAfter(current, endDate, late) ==
    \/ current.t < endDate.t
    \/ current.t = endDate.t /\ current.d < endDate.d
    \/ current.t = endDate.t /\ current.d = endDate.d /\ ~late

RECURSIVE FillFrom(_, _, _, _)
\* the while loop of fillMissingMonths
FillFrom(result, current, endDate, late) ==
    IF ~NotAfter(current, endDate, late) THEN result
    ELSE FillFrom(IF \E i \in 1..Len(result) :
                        result[i].month = MonthKey(current)
                  THEN result
                  ELSE Append(result, Aggregate(MonthKey(current), 0)),
                  setMonth(current, current.t + 1), endDate, late)

fillMissingMonths(data, startDate, endDate, late) ==
    FillFrom(data, startDate, endDate, late)

\* findByPeriod: Between(startDate, endDate) on the date column
findByPeriod(rows, startDate, endDate) ==
    SelectSeq(rows, LAMBDA r :
        /\ NotAfter(startDate, r.date, FALSE)
        /\ NotAfter(r.date, endDate, FALSE))

\* getCategoryTrend for a request made on the date now
getCategoryTrend(rows, now, months, late) ==
    LET endDate == now
        startDate == setMonth(now, now.t - months)
        monthlyData == aggregateByMonth(findByPeriod(rows, startDate, endDate))
    IN SortByMonth(fillMissingMonths(monthlyData, startDate, endDate, late))

-----------------------------------------------------------------------------
(* SpecForecast: the forecast computations applied to drawn inputs *)

\* request dates: the first and the last days of every month of 2024
Nows ==
    { x \in { Date(2024 * 12 + m, d) : m \in 0..11, d \in {1, 29, 30, 31} } :
        x.d <= DaysIn(x.t) }

ForecastKeys == { <<2023, 11>>, <<2023, 12>>, <<2024, 1>>, <<2024, 2>> }

ForecastAmounts == {100, 110, 120, 130}

\* monthly aggregates: one per month, in any order
AggregateLists ==
    UNION { { [i \in 1..n |-> Aggregate(ks[i], as[i])] :
                ks \in { f \in [1..n -> ForecastKeys] :
                           \A i \in 1..n, j \in 1..n : f[i] = f[j] => i = j },
                as \in [1..n -> ForecastAmounts] } : n \in 0..MaxAggregates }

\* the transactions of one category, in two months
DatedRows ==
    UNION { [1..n -> { [date |-> Date(2024 * 12 + m, 5), amount |-> a] :
                         m \in 0..1, a \in Amounts }] : n \in 0..MaxRows }

\* the rows getCategoryTrend may find around a request date
RowsAround(now) ==
    { << >>,
      << [date |-> now, amount |-> -2] >>,
      << [date |-> Date(now.t - 1, 15), amount |-> -2] >>,
      << [date |-> Date(now.t - 1, 15), amount |-> -2],
         [date |-> now, amount |-> -2] >> }

TrendInputs ==
    { [kind |-> "trend", prediction |-> p, currentAmount |-> c] :
        p \in {0, 94, 95, 96, 104, 105, 106, 9499, 9500, 10500, 10501},
        c \in {0, 100, 10000} }

ForecastInputs ==
    { [kind |-> "aggregate", transactions |-> ts] : ts \in DatedRows }
    \cup { [kind |-> "average", monthlyData |-> ds] : ds \in AggregateLists }
    \cup TrendInputs
    \cup UNION { { [kind |-> "categoryTrend", rows |-> rs, now |-> now,
                    months |-> k, late |-> l] :
                     rs \in RowsAround(now), k \in 1..MaxMonths,
                     l \in BOOLEAN } : now \in Nows }

InitForecast ==
    /\ LedgerInit
    /\ classifier = NoModel
    /\ isModelTrained = FALSE
    /\ keywordMap = InitialKeywordMap
    /\ store = << >>
    /\ apc = [p \in Procs |-> "idle"]
    /\ \E input \in ForecastInputs :
          areq = [p \in Procs |-> IF p = 1 THEN input ELSE NoCall]
    /\ ares = [p \in Procs |-> NoResult]
    /\ seen = NoHistory

\* the computation asked for returns
Computed(p, kind, result) ==
    /\ apc[p] = "idle"
    /\ areq[p].kind = kind
    /\ apc' = [apc EXCEPT ![p] = "done"]
    /\ ares' = [ares EXCEPT ![p] = result]
    /\ UNCHANGED <<lvars, classifier, isModelTrained, keywordMap, store,
                   areq, seen>>

AggregateByMonth(p) ==
    /\ areq[p].kind = "aggregate"
    /\ Computed(p, "aggregate", aggregateByMonth(areq[p].transactions))

CalculateWeightedMovingAverage(p) ==
    /\ areq[p].kind = "average"
    /\ Computed(p, "average",
                calculateWeightedMovingAverage(areq[p].monthlyData))

DetermineTrend(p) ==
    /\ areq[p].kind = "trend"
    /\ Computed(p, "trend",
                determineTrend(areq[p].prediction, areq[p].currentAmount))

GetCategoryTrend(p) ==
    /\ areq[p].kind = "categoryTrend"
    /\ Computed(p, "categoryTrend",
                getCategoryTrend(areq[p].rows, areq[p].now, areq[p].months,
                                 areq[p].late))

NextForecast ==
    \/ AggregateByMonth(1)
    \/ CalculateWeightedMovingAverage(1)
    \/ DetermineTrend(1)
    \/ GetCategoryTrend(1)

SpecForecast == InitForecast /\ [][NextForecast]_vars

-----------------------------------------------------------------------------
(* Claims on the spending forecast *)

ComputedAs(kind) == apc[1] = "done" /\ areq[1].kind = kind

\* the position of a month among the months of the list, oldest = 1
RankOf(month, data) ==
    Cardinality({ j \in 1..Len(data) : ~KeyBefore(month, data[j].month) })

RECURSIVE RankedSum(_, _)
\* the sum of amount * rank over the items i.. of the list
RankedSum(data, i) ==
    IF i > Len(data) THEN 0
    ELSE data[i].amount * RankOf(data[i].month, data) + RankedSum(data, i + 1)

\* the months 2023-11 .. 2024-02 with totals 100, 120, 110, 130
IsFoodExample(data) ==
    { data[i] : i \in 1..Len(data) } =
        { Aggregate(<<2023, 11>>, 100), Aggregate(<<2023, 12>>, 120),
          Aggregate(<<2024, 1>>, 110), Aggregate(<<2024, 2>>, 130) }

\* the forecast amount is sum(amount_i * i) / sum(i), the weights 1..n
\* going to the months in ascending order whatever the order of the list
IsWeightedAverage(data, result) ==
    LET n == Len(data)
    IN result.num * ((n * (n + 1)) \div 2) = RankedSum(data, 1) * result.den

\* C17 as stated: for n >= 3 monthly aggregates the forecast amount is
\* sum(amount_i * i) / sum(i) with the weights 1..n in ascending month
\* order, independent of the order of the list, and [100,120,110,130]
\* oldest to newest gives 121
C17_AsStated ==
    (ComputedAs("average") /\ Len(areq[1].monthlyData) >= 3) =>
        /\ IsWeightedAverage(areq[1].monthlyData, ares[1])
        /\ IsFoodExample(areq[1].monthlyData)
              => ares[1].num = 121 * ares[1].den

\* C17 amended: the same weighted average, and [100,120,110,130] oldest to
\* newest gives 119 = (100*1 + 120*2 + 110*3 + 130*4) / 10
C17_WeightedAverage ==
    (ComputedAs("average") /\ Len(areq[1].monthlyData) >= 3) =>
        /\ IsWeightedAverage(areq[1].monthlyData, ares[1])
        /\ IsFoodExample(areq[1].monthlyData)
              => ares[1].num = 119 * ares[1].den

\* C17 witness: the example months, newest first, have been averaged
C17_Witness ==
    /\ ComputedAs("average")
    /\ areq[1].monthlyData =
          << Aggregate(<<2024, 2>>, 130), Aggregate(<<2024, 1>>, 110),
             Aggregate(<<2023, 12>>, 120), Aggregate(<<2023, 11>>, 100) >>
    /\ ares[1] = [num |-> 1190, den |-> 10]

RECURSIVE AbsSumOfMonth(_, _)
\* the sum of the absolute amounts of the transactions dated in the month
AbsSumOfMonth(transactions, month) ==
    IF transactions = << >> THEN 0
    ELSE (IF MonthKey(Head(transactions).date) = month
          THEN Abs(Head(transactions).amount) ELSE 0)
         + AbsSumOfMonth(Tail(transactions), month)

\* C18: each monthly aggregate is the sum of the absolute amounts of the
\* month's transactions, for every mix of signs, and is never negative
C18_AggregateSumsAbsolutes ==
    ComputedAs("aggregate") =>
        \A i \in 1..Len(ares[1]) :
            /\ ares[1][i].amount
                 = AbsSumOfMonth(areq[1].transactions, ares[1][i].month)
            /\ ares[1][i].amount >= 0

C20_ContiguousSeries ==
    ComputedAs("categoryTrend") =>
        LET first == areq[1].now.t - areq[1].months
        IN /\ Len(ares[1]) = areq[1].months + 1
           /\ \A i \in 1..Len(ares[1]) :
                 ares[1][i].month = MonthKey(Date(first + i - 1, 1))

-----------------------------------------------------------------------------
(* Anomaly detection: values                                               *)
(*                                                                         *)
(* A date is a count of days.  Amounts are integers, and the statistics    *)
(* are kept as exact fractions: the mean as sum / n, the variance as       *)
(* [num, den].  A z-score and an anomaly score are non-negative, so each   *)
(* is held by its square, which orders them as they are ordered; a value   *)
(* is "finite" [num, den], "NaN" (0 / 0) or "Infinity" (x / 0).  The code  *)
(* computes in doubles: roundedUp tells that the rounding errors of the    *)
(* quotient (amount - mean) / stdDev added up upwards, which decides the   *)
(* comparison with 2 when the exact quotient is 2.                         *)

\* the largest number of rows drawn for detectAnomalies
MaxWindow == 6

\* the largest number of rows drawn for detectUnusualFrequency
MaxRecurring == 4

Dated(id, description, amount, categoryId, date, isPaid) ==
    [id |-> id, description |-> description, amount |-> amount,
     categoryId |-> categoryId, date |-> date, isPaid |-> isPaid]

Finite(num, den) == [kind |-> "finite", num |-> num, den |-> den]

NaN == [kind |-> "NaN", num |-> 0, den |-> 0]

Infinity == [kind |-> "Infinity", num |-> 1, den |-> 0]

\* a / b of two non-negative squares
Quotient(a, b) ==
    IF b # 0 THEN Finite(a, b)
    ELSE IF a = 0 THEN NaN
    ELSE Infinity

\* a > b on finite values
Above(a, b) ==
    /\ a.kind = "finite"
    /\ b.kind = "finite"
    /\ a.num * b.den > b.num * a.den

\* date.setDate(date.getDate() - days)
setDate(date, days) == date - days

RECURSIVE InsertByDate(_, _)
InsertByDate(sorted, row) ==
    IF sorted = << >> THEN << row >>
    ELSE IF row.date < Head(sorted).date THEN << row >> \o sorted
    ELSE << Head(sorted) >> \o InsertByDate(Tail(sorted), row)

RECURSIVE OrderByDate(_, _)
\* order: { date: 'ASC' }
OrderByDate(rows, sorted) ==
    IF rows = << >> THEN sorted
    ELSE OrderByDate(Tail(rows), InsertByDate(sorted, Head(rows)))

\* findByPeriod on day counts: the paid rows of the period, oldest first
findPaidByPeriod(rows, startDate, endDate) ==
    OrderByDate(SelectSeq(rows, LAMBDA r :
                    /\ startDate <= r.date
                    /\ r.date <= endDate
                    /\ r.isPaid), << >>)

-----------------------------------------------------------------------------
(* Anomaly detection: detectAnomalies *)

RECURSIVE SumOf(_)
\* values.reduce((total, val) => total + val, 0)
SumOf(values) ==
    IF values = << >> THEN 0 ELSE Head(values) + SumOf(Tail(values))

\* the statistics of a group of n rows: mean = sum / n, the squared
\* differences (val - mean)^2 = (n * val - sum)^2 / n^2, their mean the
\* variance.  The median is computed and never read.
calculateCategoryStats(transactions) ==
    LET values == [i \in 1..Len(transactions) |-> transactions[i].amount]
        n == Len(values)
        sum == SumOf(values)
        squaredDiffs == [i \in 1..n |-> (n * values[i] - sum) * (n * values[i] - sum)]
    IN [n |-> n,
        sum |-> sum,
        variance |-> [num |-> SumOf(squaredDiffs), den |-> n * n * n],
        min |-> CHOOSE v \in { values[i] : i \in 1..n } :
                   \A i \in 1..n : v <= values[i],
        max |-> CHOOSE v \in { values[i] : i \in 1..n } :
                   \A i \in 1..n : v >= values[i]]

\* Math.abs((amount - mean) / stdDev), squared:
\* ((n * amount - sum)^2 / n^2) / (variance.num / n^3)
zScore(amount, stats) ==
    LET diff == stats.n * amount - stats.sum
    IN Quotient(diff * diff * stats.n, stats.variance.num)

NotAtMostTwo(z, roundedUp) ==
    \/ z.kind \in {"NaN", "Infinity"}
    \/ z.num > 4 * z.den
    \/ z.num = 4 * z.den /\ roundedUp
ExceedsOne(z, roundedUp) ==
    \/ z.kind = "Infinity"
    \/ z.kind = "finite" /\ z.num > z.den
\* zScore > 2 as the doubles decide it
ExceedsTwo(z, roundedUp) ==
    \/ z.kind = "Infinity"
    \/ /\ z.kind = "finite"
       /\ \/ z.num > 4 * z.den
          \/ z.num = 4 * z.den /\ roundedUp

\* Math.min(zScore / 4, 1), squared
NormalizedScore(z) ==
    IF z.kind = "NaN" THEN NaN
    ELSE IF z.kind = "Infinity" \/ z.num >= 16 * z.den THEN Finite(1, 1)
    ELSE Finite(z.num, 16 * z.den)

\* anomalyScore: 0.7, squared
UncategorizedScore == Finite(49, 100)

\* the label of the reason; the percentage that follows it is left out
getAnomalyReason(transaction, stats) ==
    LET amount == transaction.amount
    IN IF stats.n * amount > stats.sum
       THEN (IF 10 * amount > 9 * stats.max
             THEN "excepcionalmente alto" ELSE "acima do normal")
       ELSE (IF 10 * amount < 11 * stats.min
             THEN "excepcionalmente baixo" ELSE "abaixo do normal")

AnomalyDetection(transaction, categoryId, anomalyScore, reason) ==
    [transactionId |-> transaction.id, amount |-> transaction.amount,
     categoryId |-> categoryId, anomalyScore |-> anomalyScore,
     reason |-> reason]

\* the anomalies of one category: none in a group of fewer than 3
CategoryAnomalies(categoryTransactions, categoryId, roundedUp) ==
    IF Len(categoryTransactions) < 3 THEN << >>
    ELSE LET stats == calculateCategoryStats(categoryTransactions)
             flagged == SelectSeq(categoryTransactions, LAMBDA t :
                            ExceedsTwo(zScore(t.amount, stats), roundedUp))
         IN [i \in 1..Len(flagged) |->
                AnomalyDetection(flagged[i], categoryId,
                                 NormalizedScore(zScore(flagged[i].amount, stats)),
                                 getAnomalyReason(flagged[i], stats))]

RECURSIVE AnalyzeCategories(_, _, _)
\* Object.entries(transactionsByCategory): the integer keys ascending
AnalyzeCategories(transactions, keys, roundedUp) ==
    IF keys = {} THEN << >>
    ELSE LET categoryId == CHOOSE k \in keys : \A other \in keys : k <= other
         IN CategoryAnomalies(SelectSeq(transactions, LAMBDA t :
                                  t.categoryId = categoryId),
                              categoryId, roundedUp)
            \o AnalyzeCategories(transactions, keys \ {categoryId}, roundedUp)

RECURSIVE InsertByScore(_, _)
\* a stable sort puts an item behind those it does not exceed
InsertByScore(sorted, item) ==
    IF sorted = << >> THEN << item >>
    ELSE IF Above(item.anomalyScore, Head(sorted).anomalyScore)
    THEN << item >> \o sorted
    ELSE << Head(sorted) >> \o InsertByScore(Tail(sorted), item)

RECURSIVE SortScoresFrom(_, _)
SortScoresFrom(anomalies, sorted) ==
    IF anomalies = << >> THEN sorted
    ELSE SortScoresFrom(Tail(anomalies), InsertByScore(sorted, Head(anomalies)))

\* anomalies.sort((a, b) => b.anomalyScore - a.anomalyScore)
SortByScore(anomalies) == SortScoresFrom(anomalies, << >>)

\* Array.prototype.slice(0, end): a negative end counts from the end
slice(list, end) ==
    LET last == IF end < 0 THEN Len(list) + end
                ELSE IF end > Len(list) THEN Len(list) ELSE end
    IN IF last <= 0 THEN << >> ELSE SubSeq(list, 1, last)

detectAnomalies(rows, now, maxResults, roundedUp) ==
    LET endDate == now
        startDate == setDate(now, 90)
        transactions == findPaidByPeriod(rows, startDate, endDate)
        keys == { transactions[i].categoryId : i \in 1..Len(transactions) }
                    \ {NoCategory}
        uncategorizedTransactions ==
            SelectSeq(transactions, LAMBDA t : t.categoryId = NoCategory)
        anomalies ==
            AnalyzeCategories(transactions, keys, roundedUp)
            \o [i \in 1..Len(uncategorizedTransactions) |->
                   AnomalyDetection(uncategorizedTransactions[i], NoCategory,
                                    UncategorizedScore, "Transação sem categoria")]
    IN IF Len(transactions) < 5 THEN << >>
       ELSE slice(SortByScore(anomalies), maxResults)

-----------------------------------------------------------------------------
(* Anomaly detection: detectUnusualFrequency *)

RECURSIVE TrimStart(_)
TrimStart(text) ==
    IF text # << >> /\ Head(text) = " " THEN TrimStart(Tail(text)) ELSE text

RECURSIVE TrimEnd(_)
TrimEnd(text) ==
    IF text # << >> /\ text[Len(text)] = " "
    THEN TrimEnd(SubSeq(text, 1, Len(text) - 1))
    ELSE text

\* toLowerCase, strip diacritics, drop what is neither word nor space, trim
normalizeDescription(description) ==
    TrimEnd(TrimStart(SelectSeq([i \in 1..Len(description) |->
                                    Lower(description[i])],
                                LAMBDA c : c \in {"a", "b", " "})))

\* a null description makes normalizeDescription throw a TypeError
DescriptionThrows(transactions) ==
    \E i \in 1..Len(transactions) : transactions[i].description = NullText

areDescriptionsSimilar(desc1, desc2) ==
    Includes(desc1, desc2) \/ Includes(desc2, desc1)

RECURSIVE groupSimilarTransactions(_, _)
\* groups: the keys in insertion order, a row joins the first similar key
groupSimilarTransactions(transactions, groups) ==
    IF transactions = << >> THEN groups
    ELSE LET transaction == Head(transactions)
             normalizedDesc == normalizeDescription(transaction.description)
             similar == { i \in 1..Len(groups) :
                            areDescriptionsSimilar(normalizedDesc, groups[i].key) }
         IN IF similar # {}
            THEN LET first == CHOOSE i \in similar : \A j \in similar : i <= j
                 IN groupSimilarTransactions(Tail(transactions),
                        [groups EXCEPT ![first].transactions =
                                           Append(@, transaction)])
            ELSE groupSimilarTransactions(Tail(transactions),
                     Append(groups, [key |-> normalizedDesc,
                                     transactions |-> << transaction >>]))

\* Math.round of the difference in days, the dates being day counts
Intervals(sortedTransactions) ==
    [i \in 1..(Len(sortedTransactions) - 1) |->
        sortedTransactions[i + 1].date - sortedTransactions[i].date]

\* stdDev / avgInterval < 0.3 for k intervals of sum s: the variance is
\* sum((k * val - s)^2) / k^3 and the mean s / k; 0 / 0 is NaN, not < 0.3
IsRegular(intervals) ==
    LET k == Len(intervals)
        s == SumOf(intervals)
        squaredDiffs == [i \in 1..k |-> (k * intervals[i] - s) * (k * intervals[i] - s)]
    IN s # 0 /\ 100 * SumOf(squaredDiffs) < 9 * s * s * k

RecurringGroup(group) ==
    LET sortedTransactions == OrderByDate(group.transactions, << >>)
        intervals == Intervals(sortedTransactions)
    IN [description |-> group.key,
        transactions |-> sortedTransactions,
        avgInterval |-> [num |-> SumOf(intervals), den |-> Len(intervals)],
        lastTransaction |-> sortedTransactions[Len(sortedTransactions)]]

identifyRecurringGroups(groups) ==
    LET recurring == SelectSeq(groups, LAMBDA g :
                        /\ Len(g.transactions) >= 3
                        /\ IsRegular(Intervals(OrderByDate(g.transactions, << >>))))
    IN [i \in 1..Len(recurring) |-> RecurringGroup(recurring[i])]

\* the record of a pattern that broke; the category name is left out
MissingRecurrence(group, daysSinceLastTx) ==
    LET last == group.lastTransaction
        avg == group.avgInterval
        amounts == [i \in 1..Len(group.transactions) |->
                       group.transactions[i].amount]
    IN [description |-> last.description,
        lastDate |-> last.date,
        expectedDate |-> [num |-> last.date * avg.den + avg.num, den |-> avg.den],
        daysPastDue |-> [num |-> daysSinceLastTx * avg.den - avg.num,
                         den |-> avg.den],
        averageAmount |-> [num |-> Abs(SumOf(amounts)), den |-> Len(amounts)]]

\* daysSinceLastTx > avgInterval * 1.5
detectInterruptedPatterns(recurringGroups, now) ==
    LET interrupted == SelectSeq(recurringGroups, LAMBDA g :
                          2 * g.avgInterval.den * (now - g.lastTransaction.date)
                              > 3 * g.avgInterval.num)
    IN [i \in 1..Len(interrupted) |->
           MissingRecurrence(interrupted[i],
                             now - interrupted[i].lastTransaction.date)]

\* an error thrown on the way is caught and gives the empty list
detectUnusualFrequency(rows, now) ==
    LET transactions == findPaidByPeriod(rows, setDate(now, 180), now)
    IN IF DescriptionThrows(transactions) THEN << >>
       ELSE detectInterruptedPatterns(
                identifyRecurringGroups(
                    groupSimilarTransactions(transactions, << >>)), now)

-----------------------------------------------------------------------------
(* SpecAnomaly: the anomaly detector applied to drawn inputs *)

\* the limits a request asks for
MaxResultsValues == {0, 2, 5}

\* n rows of one category dated now, with the amounts given
GroupRows(amounts, categoryId, firstId, now) ==
    [i \in 1..Len(amounts) |->
        Dated(firstId + i - 1, << "a" >>, amounts[i], categoryId, now, TRUE)]

\* n amounts 1 and one amount 9
OneOutlier(n) == [i \in 1..(n + 1) |-> IF i <= n THEN 1 ELSE 9]

\* rows in the window, each of category 1 or of none, of amount 1 or 9
MixedChoices == {NoCategory, 1} \X {1, 9}

MixedRows(f, now) ==
    [i \in DOMAIN f |-> Dated(i, << "a" >>, f[i][2], f[i][1], now, TRUE)]

\* a row inside the window, before its first day, or unpaid
WindowChoices == {<<0, TRUE>>, <<91, TRUE>>, <<0, FALSE>>}

\* one group with an outlier
WindowRows(f, now) ==
    [i \in DOMAIN f |->
        Dated(i, << "a" >>, IF i = Len(f) THEN 9 ELSE 1, 1,
              now - f[i][1], f[i][2])]

\* the group of the specification's scenario, larger groups, two groups,
\* a row on the first day of the window
ExampleRows(now) ==
    { GroupRows(<<100, 102, 98, 101, 500>>, 1, 1, now),
      GroupRows(OneOutlier(8), 1, 1, now)
          \o GroupRows(<<1, 9>>, NoCategory, 10, now),
      GroupRows(OneOutlier(16), 1, 1, now)
          \o GroupRows(<<1>>, NoCategory, 18, now),
      GroupRows(OneOutlier(17), 1, 1, now),
      GroupRows(OneOutlier(8), 2, 1, now)
          \o GroupRows(OneOutlier(5), 1, 10, now)
          \o GroupRows(<<1>>, NoCategory, 16, now),
      GroupRows(<<9, 9, 9, 9, 9>>, 2, 1, now)
          \o GroupRows(OneOutlier(5), 1, 6, now),
      GroupRows(OneOutlier(4), 1, 1, now)
          \o GroupRows(<<9>>, NoCategory, 6, now - 90) }

AnomalyRequest(rows, now, maxResults, roundedUp) ==
    [kind |-> "anomalies", rows |-> rows, now |-> now,
     maxResults |-> maxResults, roundedUp |-> roundedUp]

\* rows of two descriptions, of either sign, 30 or 90 days apart
RecurringChoices == {<< "a" >>, << "A", "b" >>} \X {-2, 1} \X {30, 90}

\* the date of row i of rows that follow one another at the gaps given
DateAt(f, i) == SumOf([j \in 1..i |-> f[j][3]])

RecurringRows(f) ==
    [i \in DOMAIN f |->
        Dated(i, f[i][1], f[i][2], NoCategory, DateAt(f, i), TRUE)]

\* rows at the dates given, without a description where nulls tells so
BillRows(descriptions, nulls, dates, paid) ==
    [i \in 1..Len(dates) |->
        Dated(i, IF i \in nulls THEN NullText ELSE descriptions[i], 1,
              NoCategory, dates[i], i \in paid)]

FrequencyRequest(rows, now) == [kind |-> "frequency", rows |-> rows, now |-> now]

\* same dates, a null description, uneven intervals, an unpaid row, and
\* two keys that a third description joins
ExampleFrequencies ==
    { FrequencyRequest(BillRows(<< <<"a">>, <<"a">>, <<"a">> >>, {},
                                <<0, 0, 0>>, 1..3), 50),
      FrequencyRequest(BillRows(<< <<"a">>, <<"a">>, <<"a">>, <<"a">> >>, {3},
                                <<0, 30, 60, 90>>, 1..4), 140),
      FrequencyRequest(BillRows(<< <<"a">>, <<"a">>, <<"a">>, <<"a">> >>, {},
                                <<0, 30, 70, 100>>, 1..4), 150),
      FrequencyRequest(BillRows(<< <<"a">>, <<"a">>, <<"a">>, <<"a">> >>, {},
                                <<0, 30, 60, 90>>, {1, 2, 4}), 140),
      FrequencyRequest(BillRows(<< <<"a">>, <<"b">>, <<"a", "b">>, <<"b">>,
                                   <<"b", " ">> >>, {},
                                <<0, 10, 30, 50, 90>>, 1..5), 200) }

Requested(input) ==
    areq = [p \in Procs |-> IF p = 1 THEN input ELSE NoCall]

\* the request drawn
AnomalyInput ==
    \/ \E now \in {200}, n \in 0..MaxWindow :
          \E f \in [1..n -> MixedChoices], k \in MaxResultsValues,
             up \in BOOLEAN :
                Requested(AnomalyRequest(MixedRows(f, now), now, k, up))
    \/ \E now \in {200}, f \in [1..MaxWindow -> WindowChoices] :
          Requested(AnomalyRequest(WindowRows(f, now), now, 5, FALSE))
    \/ \E now \in {200}, k \in MaxResultsValues, up \in BOOLEAN :
          \E rows \in ExampleRows(now) :
             Requested(AnomalyRequest(rows, now, k, up))
    \/ \E n \in 0..MaxRecurring, since \in {20, 50, 100} :
          \E f \in [1..n -> RecurringChoices] :
             Requested(FrequencyRequest(RecurringRows(f),
                                        DateAt(f, n) + since))
    \/ \E input \in ExampleFrequencies : Requested(input)

InitAnomaly ==
    /\ LedgerInit
    /\ classifier = NoModel
    /\ isModelTrained = FALSE
    /\ keywordMap = InitialKeywordMap
    /\ store = << >>
    /\ apc = [p \in Procs |-> "idle"]
    /\ AnomalyInput
    /\ ares = [p \in Procs |-> NoResult]
    /\ seen = NoHistory

DetectAnomalies(p) ==
    /\ areq[p].kind = "anomalies"
    /\ Computed(p, "anomalies",
                detectAnomalies(areq[p].rows, areq[p].now,
                                areq[p].maxResults, areq[p].roundedUp))

DetectUnusualFrequency(p) ==
    /\ areq[p].kind = "frequency"
    /\ Computed(p, "frequency",
                detectUnusualFrequency(areq[p].rows, areq[p].now))

NextAnomaly ==
    \/ DetectAnomalies(1)
    \/ DetectUnusualFrequency(1)

SpecAnomaly == InitAnomaly /\ [][NextAnomaly]_vars

-----------------------------------------------------------------------------
(* Claims on the anomaly detector *)

\* the paid rows of the days now - days .. now of the request
PaidWithin(days) ==
    { areq[1].rows[i] : i \in { j \in 1..Len(areq[1].rows) :
                                  /\ areq[1].rows[j].isPaid
                                  /\ areq[1].now - days <= areq[1].rows[j].date
                                  /\ areq[1].rows[j].date <= areq[1].now } }

\* the rows of the window that have the category of the row t
GroupAround(t) == { u \in PaidWithin(90) : u.categoryId = t.categoryId }

RECURSIVE TotalOf(_)
\* the sum of the amounts of a set of rows
TotalOf(group) ==
    IF group = {} THEN 0
    ELSE LET t == CHOOSE u \in group : TRUE
         IN t.amount + TotalOf(group \ {t})

RECURSIVE SquaresOf(_)
\* the sum of the squared amounts of a set of rows
SquaresOf(group) ==
    IF group = {} THEN 0
    ELSE LET t == CHOOSE u \in group : TRUE
         IN t.amount * t.amount + SquaresOf(group \ {t})

\* the squared z-score of t in its group, against the mean and the
\* population deviation: (n x - S)^2 / (n Q - S^2), S the sum of the
\* amounts and Q the sum of their squares
SquaredZ(t) ==
    LET n == Cardinality(GroupAround(t))
        s == TotalOf(GroupAround(t))
        q == SquaresOf(GroupAround(t))
    IN [num |-> (n * t.amount - s) * (n * t.amount - s), den |-> n * q - s * s]

\* the z-score of t is above 2
ZAboveTwo(t) == SquaredZ(t).num > 4 * SquaredZ(t).den

\* t is reported for its z-score
ZAnomaly(t) ==
    /\ t.categoryId # NoCategory
    /\ Cardinality(GroupAround(t)) >= 3
    /\ ZAboveTwo(t)

\* the rows of the window to report
Candidates ==
    { t \in PaidWithin(90) : t.categoryId = NoCategory \/ ZAnomaly(t) }

\* a and b are one number
SameNumber(a, b) == a.num * b.den = b.num * a.den

\* the squared score min(z / 4, 1) of a z-score anomaly, 0.7 without category
ScoreAsSpecified(t) ==
    IF t.categoryId = NoCategory THEN [num |-> 49, den |-> 100]
    ELSE IF SquaredZ(t).num >= 16 * SquaredZ(t).den THEN [num |-> 1, den |-> 1]
    ELSE [num |-> SquaredZ(t).num, den |-> 16 * SquaredZ(t).den]

\* C21: detectAnomalies returns nothing when the 90 days hold fewer than 5
\* paid transactions; otherwise it returns z-score anomalies (score
\* min(z / 4, 1), only for z > 2 in groups of at least 3) and uncategorized
\* transactions (score 0.7), the highest scores first, cut to maxResults
\* entries (all of them when there are no more), every score within [0, 1]
C21_AnomaliesRankedAndCut ==
    ComputedAs("anomalies") =>
        LET result == ares[1]
            byId(id) == CHOOSE t \in PaidWithin(90) : t.id = id
            reported == { result[i].transactionId : i \in 1..Len(result) }
        IN IF Cardinality(PaidWithin(90)) < 5 THEN result = << >>
           ELSE /\ Len(result) =
                      IF areq[1].maxResults < Cardinality(Candidates)
                      THEN areq[1].maxResults ELSE Cardinality(Candidates)
                /\ Cardinality(reported) = Len(result)
                /\ reported \subseteq { t.id : t \in Candidates }
                /\ \A i \in 1..Len(result) :
                      /\ result[i].anomalyScore.kind = "finite"
                      /\ SameNumber(result[i].anomalyScore,
                                    ScoreAsSpecified(byId(result[i].transactionId)))
                      /\ result[i].anomalyScore.num >= 0
                      /\ result[i].anomalyScore.num <= result[i].anomalyScore.den
                /\ \A i \in 1..Len(result), j \in 1..Len(result) :
                      i < j => ~Above(result[j].anomalyScore,
                                      result[i].anomalyScore)
                /\ \A t \in Candidates, i \in 1..Len(result) :
                      t.id \notin reported =>
                          ~Above(Finite(ScoreAsSpecified(t).num,
                                        ScoreAsSpecified(t).den),
                                 result[i].anomalyScore)

\* the request finds the group of scenario 4: five paid transactions of
\* one category with the amounts 100, 102, 98, 101 and 500
IsScenarioGroup ==
    /\ ComputedAs("anomalies")
    /\ Len(areq[1].rows) = 5
    /\ PaidWithin(90) = { areq[1].rows[i] : i \in 1..5 }
    /\ \A i \in 1..5 : areq[1].rows[i].categoryId = 1
    /\ [i \in 1..5 |-> areq[1].rows[i].amount] = <<100, 102, 98, 101, 500>>

\* C22 as stated: for the group [100, 102, 98, 101, 500] detectAnomalies
\* flags the 500 transaction, its z-score exceeding 2, as exceptionally high
C22_AsStated ==
    IsScenarioGroup /\ areq[1].maxResults > 0 =>
        \E i \in 1..Len(ares[1]) :
            /\ ares[1][i].amount = 500
            /\ ares[1][i].reason = "excepcionalmente alto"

\* C22: for the group [100, 102, 98, 101, 500] detectAnomalies flags no
\* transaction: the z-score of the 500 transaction against the mean and
\* the population deviation of the group is below 2 (its square is
\* 2556801 / 639244), as is every z-score of the group
C22_ScenarioBelowThreshold ==
    IsScenarioGroup =>
        /\ ares[1] = << >>
        /\ \A t \in PaidWithin(90) : SquaredZ(t).num < 4 * SquaredZ(t).den
        /\ \E t \in PaidWithin(90) :
              /\ t.amount = 500
              /\ SquaredZ(t) = [num |-> 2556801, den |-> 639244]

C22_Witness == IsScenarioGroup /\ areq[1].maxResults = 5


\* the amounts of the category group of t are all the same
IdenticalGroup(t) ==
    /\ t.categoryId # NoCategory
    /\ \A u \in GroupAround(t) : u.amount = t.amount

\* C23: when all the amounts of a category group are identical (stdDev = 0)
\* no transaction of the group is flagged, and no anomaly returned carries
\* an undefined (NaN or infinite) anomalyScore or z-score
C23_ZeroDeviationNotFlagged ==
    ComputedAs("anomalies") =>
        /\ \A t \in PaidWithin(90), i \in 1..Len(ares[1]) :
              IdenticalGroup(t) => ares[1][i].transactionId # t.id
        /\ \A i \in 1..Len(ares[1]) :
              /\ ares[1][i].anomalyScore.kind = "finite"
              /\ ares[1][i].anomalyScore.den > 0
              /\ \A t \in PaidWithin(90) :
                    t.id = ares[1][i].transactionId /\ t.categoryId # NoCategory
                        => SquaredZ(t).den > 0

\* a group of at least 3 identical amounts is analysed, beside a group
\* that yields an anomaly
C23_Witness ==
    /\ ComputedAs("anomalies")
    /\ Cardinality(PaidWithin(90)) >= 5
    /\ \E t \in PaidWithin(90) :
          IdenticalGroup(t) /\ Cardinality(GroupAround(t)) >= 3
    /\ \E i \in 1..Len(ares[1]) : ares[1][i].categoryId # NoCategory


\* C30: a category group of n transactions yields a z-score anomaly only
\* when n >= 6: groups of 3, 4 or 5 never produce a flagged transaction
C30_SmallGroupsNeverFlagged ==
    ComputedAs("anomalies") =>
        \A i \in 1..Len(ares[1]), t \in PaidWithin(90) :
            t.id = ares[1][i].transactionId /\ t.categoryId # NoCategory
                => Cardinality(GroupAround(t)) >= 6


\* the description groups of the paid rows of the last 180 days, each
\* with its rows from the oldest to the latest
DescriptionGroups ==
    LET found == findPaidByPeriod(areq[1].rows, areq[1].now - 180, areq[1].now)
        groups == groupSimilarTransactions(found, << >>)
    IN { groups[i].transactions : i \in 1..Len(groups) }

FirstDate(group) == group[1].date

LastDate(group) == group[Len(group)].date

\* the sum of the squared day intervals between the rows of a group
SquaredIntervals(group) ==
    SumOf([i \in 1..(Len(group) - 1) |->
              (group[i + 1].date - group[i].date)
                  * (group[i + 1].date - group[i].date)])

\* the sum of the absolute amounts of the rows of a group
AbsTotalOf(group) == SumOf([i \in 1..Len(group) |-> Abs(group[i].amount)])

\* the group recurs and is overdue: at least 3 members, n - 1 intervals of
\* sum s = last - first and mean s / (n - 1) whose deviation is below 0.3
\* of the mean, and more than 1.5 mean intervals since the last member
IsMissing(group) ==
    LET k == Len(group) - 1
        s == LastDate(group) - FirstDate(group)
    IN /\ Len(group) >= 3
       /\ s > 0
       /\ 100 * (k * SquaredIntervals(group) - s * s) < 9 * s * s
       /\ 2 * k * (areq[1].now - LastDate(group)) > 3 * s

\* the record is the one the claim describes for the group
DescribesGroup(record, group) ==
    LET k == Len(group) - 1
        s == LastDate(group) - FirstDate(group)
    IN /\ record.lastDate = LastDate(group)
       /\ SameNumber(record.expectedDate,
                     [num |-> LastDate(group) * k + s, den |-> k])
       /\ SameNumber(record.daysPastDue,
                     [num |-> (areq[1].now - LastDate(group)) * k - s, den |-> k])
       /\ SameNumber(record.averageAmount,
                     [num |-> AbsTotalOf(group), den |-> Len(group)])

\* C24: detectUnusualFrequency emits a MissingRecurrence for a description
\* group exactly when the group has at least 3 members, its day intervals
\* have stdDev / mean < 0.3 and daysSinceLastTransaction > 1.5 avgInterval;
\* the record has expectedDate = lastDate + avgInterval, daysPastDue =
\* daysSinceLastTransaction - avgInterval and averageAmount = the mean of
\* the absolute amounts of the group
C24_MissingRecurrences ==
    ComputedAs("frequency") =>
        /\ Len(ares[1]) = Cardinality({ g \in DescriptionGroups : IsMissing(g) })
        /\ \A g \in DescriptionGroups :
              IsMissing(g) =>
                  \E i \in 1..Len(ares[1]) : DescribesGroup(ares[1][i], g)

-----------------------------------------------------------------------------
(* AccountsService.remove and getSummary *)

hasTransactionsFromAccount(accountId) ==
    \E i \in TxIds : txs[i] # NoTx /\ txs[i].accountId = accountId
\* count where accountId or destinationAccountId is the account, > 0
hasTransactionsForAccount(accountId) ==
    \E i \in TxIds :
        /\ txs[i] # NoTx
        /\ \/ txs[i].accountId = accountId
           \/ txs[i].destinationAccountId = accountId

\* the delete of an account row is refused while a transaction names the
\* account as destination (the foreign key of destinationAccount)
DeleteRejects(id) ==
    \E i \in TxIds : txs[i] # NoTx /\ txs[i].destinationAccountId = id

\* the transactions left by the delete of an account row: those of the
\* account go with it (account: onDelete CASCADE)
CascadeFrom(id) ==
    [i \in TxIds |-> IF txs[i] # NoTx /\ txs[i].accountId = id THEN NoTx
                     ELSE txs[i]]

\* remove: findOne, hasTransactionsForAccount, accountsRepository.remove
AccountsRemove(p, id) ==
    /\ Begin(p, [kind |-> "removeAccount", id |-> id])
    /\ pc' = [pc EXCEPT ![p] = "done"]
    /\ UNCHANGED <<balance, nextId, cur, old, legs, calls, preApply>>
    /\ IF id \notin accounts
       THEN /\ outcome' = [outcome EXCEPT ![p] = "NotFound"]
            /\ UNCHANGED <<accounts, txs>>
       ELSE IF hasTransactionsForAccount(id)
       THEN /\ outcome' = [outcome EXCEPT ![p] = "Forbidden"]
            /\ UNCHANGED <<accounts, txs>>
       ELSE IF DeleteRejects(id)
       THEN /\ outcome' = [outcome EXCEPT ![p] = "QueryFailed"]
            /\ UNCHANGED <<accounts, txs>>
       ELSE /\ outcome' = [outcome EXCEPT ![p] = "ok"]
            /\ accounts' = accounts \ {id}
            /\ txs' = CascadeFrom(id)

RECURSIVE TotalBalance(_, _)
\* accounts.reduce((sum, account) => sum + Number(account.balance), 0)
TotalBalance(table, stored) ==
    IF stored = {} THEN 0
    ELSE LET a == CHOOSE x \in stored : TRUE
         IN table[a] + TotalBalance(table, stored \ {a})

\* getSummary on the tables given: the total of the balances and the
\* number of the accounts
getSummary(table, stored) ==
    [totalBalance |-> TotalBalance(table, stored),
     accountCount |-> Cardinality(stored)]

-----------------------------------------------------------------------------
(* SpecAccounts: accounts are removed between the calls on transactions;   *)
(* calls run one at a time, no storage failure                             *)

NextAccounts ==
    \/ \E dto \in CreateDtos : Create(1, dto)
    \/ CreateReturn(1)
    \/ \E id \in TxIds : RemoveFind(1, id)
    \/ RemoveRow(1)
    \/ \E i \in 1..2 : UBFind(1, i)
    \/ \E i \in 1..2 : UBSave(1, i)
    \/ \E id \in Accounts : AccountsRemove(1, id)
    \/ Finish(1)

SpecAccounts == Init /\ [][NextAccounts]_vars

-----------------------------------------------------------------------------
(* Claims on the accounts *)

\* the account was referenced by a stored transaction when the call began
ReferencedAtStart(id) ==
    \E i \in TxIds :
        /\ start.txs[i] # NoTx
        /\ \/ start.txs[i].accountId = id
           \/ start.txs[i].destinationAccountId = id

\* C25: AccountsService.remove fails with Forbidden and leaves the account
\* stored whenever a transaction references the account as source or as
\* destination; and no stored transaction references a removed account
C25_ReferencedAccountsStay ==
    /\ pc[1] = "done" /\ req[1].kind = "removeAccount"
         /\ ReferencedAtStart(req[1].id)
            => outcome[1] = "Forbidden" /\ req[1].id \in accounts /\ txs = start.txs
    /\ \A i \in TxIds :
          txs[i] # NoTx =>
              /\ txs[i].accountId \in accounts
              /\ txs[i].destinationAccountId \in accounts \cup {NoDest}

\* the removal of an account that an expense names as destination was
\* refused
C25_Witness ==
    /\ pc[1] = "done"
    /\ req[1].kind = "removeAccount"
    /\ outcome[1] = "Forbidden"
    /\ \E i \in TxIds :
          /\ txs[i].type = EXPENSE
          /\ txs[i].destinationAccountId = req[1].id

-----------------------------------------------------------------------------
(* SpecSaveFail: calls run one at a time; the save of update and the       *)
(* remove of remove may throw                                              *)

\* update: the reversal is over, transactionsRepository.save throws; the
\* error leaves update as it is
UpdateSaveFails(p) ==
    /\ UNCHANGED <<avars, accounts>>
    /\ pc[p] = "u_reverse"
    /\ AllDone(legs[p])
    /\ pc' = [pc EXCEPT ![p] = "done"]
    /\ outcome' = [outcome EXCEPT ![p] = "QueryFailed"]
    /\ UNCHANGED <<balance, txs, nextId, nOps, req, cur, old, legs, calls,
                   start, preApply>>

\* remove: the reversal is over, transactionsRepository.remove throws; the
\* error leaves remove as it is
RemoveRowFails(p) ==
    /\ UNCHANGED <<avars, accounts>>
    /\ pc[p] = "r_reverse"
    /\ AllDone(legs[p])
    /\ pc' = [pc EXCEPT ![p] = "done"]
    /\ outcome' = [outcome EXCEPT ![p] = "QueryFailed"]
    /\ UNCHANGED <<balance, txs, nextId, nOps, req, cur, old, legs, calls,
                   start, preApply>>

NextSaveFail ==
    \/ \E dto \in FailCreateDtos : Create(1, dto)
    \/ CreateReturn(1)
    \/ \E id \in TxIds, dto \in FailUpdateDtos : UpdateFind(1, id, dto)
    \/ UpdateSave(1)
    \/ UpdateSaveFails(1)
    \/ UpdateReturn(1)
    \/ \E id \in TxIds : RemoveFind(1, id)
    \/ RemoveRow(1)
    \/ RemoveRowFails(1)
    \/ \E i \in 1..2 : UBFind(1, i)
    \/ \E i \in 1..2 : UBSave(1, i)
    \/ Finish(1)

SpecSaveFail == Init /\ [][NextSaveFail]_vars

\* C26: when the save of update or the remove of remove fails after the
\* old effect has been reversed, the balances are left as they were before
\* the call, and so are the stored transactions
C26_FailedSaveRestoresBalances ==
    \A p \in Procs :
        (/\ Returned(p)
         /\ req[p].kind \in {"update", "remove"}
         /\ outcome[p] = "QueryFailed")
        => (balance = start.balance /\ txs = start.txs)


\* the call of request p was made on a transfer with a destination, and
\* left it one
OnTransfers(p) ==
    /\ IsTransferWithDest(cur[p])
    /\ req[p].kind = "update" => IsTransferWithDest(old[p])

\* C27: applying or reversing a paid transfer with a destination leaves the
\* sum of the two balances unchanged: a create, update or remove call on a
\* transfer preserves the total balance getSummary reports
C27_TransfersPreserveTotal ==
    (Returned(1) /\ outcome[1] = "ok" /\ OnTransfers(1))
        => getSummary(balance, accounts).totalBalance
               = getSummary(start.balance, accounts).totalBalance


-----------------------------------------------------------------------------
(* The classifier shared by all users.

   findCategorized has no userId in its where clause: the start-up training
   reads the categorized rows of every user, while findRecent and findOne
   read the caller's rows only. store holds the caller's rows; the rows of
   another user are an input of the start-up training. *)

\* the categorized rows another user may have stored, of that user's
\* category 9, dated after the caller's rows
OtherUsersRows ==
    { << >>,
      << Row(7, <<"a">>, -2, 9) >>,
      << Row(7, <<"b">>, -2, 9), Row(8, <<"a">>, 1, 9) >> }

InitCatShared ==
    /\ LedgerInit
    /\ \E st \in Stores, others \in OtherUsersRows :
          LET m == trainModelWithHistoricalData(others \o st, FALSE)
          IN /\ store = st
             /\ classifier = m.classifier
             /\ isModelTrained = m.isModelTrained
    /\ keywordMap = InitialKeywordMap
    /\ apc = [p \in Procs |-> "idle"]
    /\ areq = [p \in Procs |-> NoCall]
    /\ ares = [p \in Procs |-> NoResult]
    /\ seen = NoHistory

SpecCatShared == InitCatShared /\ [][NextCat]_vars

-----------------------------------------------------------------------------
(* Claims on the categories suggested *)

\* the ids of the categories the caller owns
OwnCategoryIds == { UserCategories[i].id : i \in DOMAIN UserCategories }

\* C28: the categoryId returned by suggestCategory always identifies a
\* category owned by the calling user, whatever rows or feedback of other
\* users the shared classifier was trained on
C28_SuggestsOwnCategory ==
    (SuggestDone(1) /\ ares[1].kind = "suggestion"
                    /\ ares[1].categoryId # NoCategory)
        => ares[1].categoryId \in OwnCategoryIds

\* C29: every non-null result of suggestCategory carries a non-null
\* categoryId, also when the similar-transaction path matched a row of the
\* user that has no category
C29_SuggestionHasCategory ==
    (SuggestDone(1) /\ ares[1].kind = "suggestion")
        => ares[1].categoryId # NoCategory

=============================================================================
